---------------------------- MODULE Spec2Model ----------------------------
(***************************************************************************)
(* Transcripts_explorer: the topology pipeline (scripts/topology.py) and   *)
(* the expression statistics (scripts/expression.py).                      *)
(*                                                                         *)
(* Four state machines share the variables below, each with its own        *)
(* specification:                                                          *)
(*   SpecTopology  create_membrane_topology_objects for one isoform:       *)
(*                 projection of the raw topology onto the alignment, then *)
(*                 run-length encoding, then the save;                     *)
(*   SpecIsoform   get_transcripts_and_sequences (the write of             *)
(*                 isoforms.fasta) followed by generate_isoform_mapping;   *)
(*   SpecBoxplot   get_boxplot_stats on one group of expression values;    *)
(*   SpecFigure    create_expression_figure_objects on a table of samples. *)
(*                                                                         *)
(* Python strings are sequences of one-character strings; Python's None is *)
(* the string "None".  Positions, starts and widths keep Python's 0-based  *)
(* values; a TLA+ sequence s holds Python's s[i] at s[i+1].                *)
(***************************************************************************)
EXTENDS Integers, Sequences, FiniteSets, TLC

VARIABLES
    pc,                 \* position of the running function
    error,              \* exception that left the function, or "None"
    aligned_seq,        \* topology.py:143 the isoform's aligned sequence
    topology,           \* topology.py:142 the isoform's raw predicted topology
    full_topology,      \* topology.py:151 the projected topology, or "None"
    seq_data,           \* topology.py:159 the isoform's segment map, or "None"
    files,              \* topology.py:180-182 the two output files, or "None"
    protein_sequences,  \* topology.py:30 dict transcript id -> protein sequence
    fasta,              \* topology.py:33 the text of isoforms.fasta, or "None"
    header_mapping,     \* topology.py:83 dict header -> isoform name, or "None"
    transcript_mapping, \* topology.py:108 rows of the saved mapping table, or "None"
    group_data,         \* expression.py:136 the expression values of one group
    stats,              \* expression.py:161 the group's boxplot record, or "None"
    expression_df,      \* expression.py:118 the table of samples
    mapping,            \* expression.py:118 dict header -> isoform label
    protein_to_color,   \* expression.py:134 dict protein -> colour, or "None"
    dd,                 \* expression.py:172 the boxplot records, or "None"
    label_mapping,      \* topology.py:123 dict header -> isoform name
    aligned_sequences,  \* topology.py:130 records of aligned_sequences.fasta
    membrane_topology_file, \* topology.py:125 records of predicted_topologies.3line
    membrane_topology,  \* topology.py:126 table isoform name -> sequence, topology
    sequences_data,     \* topology.py:154 list of segment maps, or "None"
    loop_i,             \* topology.py:138, 155 index of the running loop
    output_dir,         \* topology.py:180-182 the two files of the output directory
    shelf,              \* app.py:87 the stats table of the tab in the shelve file
    cache,              \* app.py:85 the table that lru_cache holds for the tab, or "None"
    cells,              \* the dict objects that the cells of the loaded table refer to
    plot_df,            \* plots_generation.py:91 the table given to plot_expression_data
    call,               \* app.py:232 the last callback and its selections, or "None"
    returned,           \* app.py:259, 287, 299 what the last call returned, or "None"
    job_id,             \* extract_sequences.py:343 the submitted job's id, or "None"
    status,             \* extract_sequences.py:348 the last answer of check_status
    service,            \* the status of the job at the alignment service
    alignment,          \* extract_sequences.py:359 the downloaded alignment, or "None"
    checks,             \* number of check_status calls so far
    sleeps,             \* number of time.sleep(10) calls so far
    fetches             \* number of get_result calls so far

topoVars == <<aligned_seq, topology, full_topology, seq_data, files>>
isoVars == <<protein_sequences, fasta, header_mapping, transcript_mapping>>
boxVars == <<group_data, stats>>
figVars == <<expression_df, mapping, protein_to_color, dd>>
appVars == <<shelf, cache, cells, plot_df, call, returned>>
alignVars == <<job_id, status, service, alignment, checks, sleeps, fetches>>
objVars == <<label_mapping, aligned_sequences, membrane_topology_file,
             membrane_topology, sequences_data, loop_i, output_dir>>

vars == <<pc, error, topoVars, isoVars, boxVars, figVars, objVars, appVars,
          alignVars>>

None == "None"

\* The variables of a machine that is not the one running.
TopologyIdle ==
    /\ aligned_seq = None
    /\ topology = None
    /\ full_topology = None
    /\ seq_data = None
    /\ files = None

IsoformIdle ==
    /\ protein_sequences = None
    /\ fasta = None
    /\ header_mapping = None
    /\ transcript_mapping = None

BoxplotIdle ==
    /\ group_data = None
    /\ stats = None

FigureIdle ==
    /\ expression_df = None
    /\ mapping = None
    /\ protein_to_color = None
    /\ dd = None

AppIdle ==
    /\ shelf = None
    /\ cache = None
    /\ cells = None
    /\ plot_df = None
    /\ call = None
    /\ returned = None

AlignIdle ==
    /\ job_id = None
    /\ status = None
    /\ service = None
    /\ alignment = None
    /\ checks = None
    /\ sleeps = None
    /\ fetches = None

ObjectsIdle ==
    /\ label_mapping = None
    /\ aligned_sequences = None
    /\ membrane_topology_file = None
    /\ membrane_topology = None
    /\ sequences_data = None
    /\ loop_i = None
    /\ output_dir = None

(***************************************************************************)
(* Bounds and alphabets of the topology machine.                           *)
(***************************************************************************)
MaxLen == 4

\* Characters of an aligned sequence: residues and the gap marker.  "S" is
\* both a residue (serine) and a topology label, "A" is a residue only.
AlignChars == {"A", "S", "-"}

\* Labels of a raw predicted topology: one per residue, never a gap.
TopoChars == {"S", "M"}

SeqsUpTo(S, n) == UNION {[1..k -> S] : k \in 0..n}

(***************************************************************************)
(* Alignment Projector: topology.py:144-150.                               *)
(***************************************************************************)

\* One iteration without the cursor increment of line 150.
ProjectChar_NoIncrement(char, topo, j, full) ==
    IF char = "-"
    THEN [err |-> None, full_topology |-> Append(full, "-"), j |-> j]
    ELSE IF j >= Len(topo)
         THEN [err |-> "IndexError", full_topology |-> full, j |-> j]
         ELSE [err |-> None, full_topology |-> Append(full, topo[j + 1]), j |-> j]

\* One iteration that copies the residue instead of the label at line 149.
ProjectChar_CopiesResidue(char, topo, j, full) ==
    IF char = "-"
    THEN [err |-> None, full_topology |-> Append(full, "-"), j |-> j]
    ELSE IF j >= Len(topo)
         THEN [err |-> "IndexError", full_topology |-> full, j |-> j]
         ELSE [err |-> None, full_topology |-> Append(full, char), j |-> j + 1]

\* The body of `for char in aligned_seq` (lines 146-150).  topology[j] with
\* j >= len(topology) raises IndexError; j is never negative.
ProjectChar(char, topo, j, full) ==
    IF char = "-"
    THEN [err |-> None, full_topology |-> Append(full, "-"), j |-> j]
    ELSE IF j >= Len(topo)
         THEN [err |-> "IndexError", full_topology |-> full, j |-> j]
         ELSE [err |-> None, full_topology |-> Append(full, topo[j + 1]), j |-> j + 1]

\* The loop of lines 144-150 from position i (1-based) on; an exception ends it.
RECURSIVE ProjectWalk(_, _, _, _, _)
ProjectWalk(aligned, topo, i, j, full) ==
    IF i > Len(aligned)
    THEN [err |-> None, full_topology |-> full, j |-> j]
    ELSE LET r == ProjectChar(aligned[i], topo, j, full)
         IN  IF r.err # None THEN r
             ELSE ProjectWalk(aligned, topo, i + 1, r.j, r.full_topology)

\* Lines 138-151 for one isoform: full_topology = "", j = 0, then the walk.
ProjectTopologyOf(aligned, topo) == ProjectWalk(aligned, topo, 1, 0, <<>>)

(***************************************************************************)
(* Segment Encoder: topology.py:159-176.  A Python dict keeps insertion    *)
(* order: seq_data is [keys: the labels in insertion order, runs: label -> *)
(* list of (start, width)].                                                *)
(***************************************************************************)
EmptySeqData == [keys |-> <<>>, runs |-> [c \in {} |-> <<>>]]

\* Lines 167-169 with the list overwritten instead of appended to.
AddRun_Overwrites(sd, feature, start, width) ==
    IF feature \in DOMAIN sd.runs
    THEN [sd EXCEPT !.runs[feature] = <<<<start, width>>>>]
    ELSE [keys |-> Append(sd.keys, feature),
          runs |-> sd.runs @@ (feature :> <<<<start, width>>>>)]

\* Lines 167-169 with a new label put before the labels already there.
AddRun_KeyFirst(sd, feature, start, width) ==
    IF feature \in DOMAIN sd.runs
    THEN [sd EXCEPT !.runs[feature] = Append(@, <<start, width>>)]
    ELSE [keys |-> <<feature>> \o sd.keys,
          runs |-> sd.runs @@ (feature :> <<<<start, width>>>>)]

\* Lines 167-169 with the runs of the gap marker left out.
AddRun_SkipsGaps(sd, feature, start, width) ==
    IF feature = "-" THEN sd
    ELSE IF feature \in DOMAIN sd.runs
         THEN [sd EXCEPT !.runs[feature] = Append(@, <<start, width>>)]
         ELSE [keys |-> Append(sd.keys, feature),
               runs |-> sd.runs @@ (feature :> <<<<start, width>>>>)]

\* Lines 167-169 (and 174-176): create the label's list on first use, append.
AddRun(sd, feature, start, width) ==
    IF feature \in DOMAIN sd.runs
    THEN [sd EXCEPT !.runs[feature] = Append(@, <<start, width>>)]
    ELSE [keys |-> Append(sd.keys, feature),
          runs |-> sd.runs @@ (feature :> <<<<start, width>>>>)]

\* A scan that breaks the run at every character.
RunBreaks_Always(char, current_feature) == TRUE

\* Line 164: `if char != current_feature`.
RunBreaks(char, current_feature) == char # current_feature

\* Lines 164-171: one character of the scan.  st is
\* [current_feature, start, seq_data]; start is read only when
\* current_feature is not None.
ScanChar(st, pos, char) ==
    IF RunBreaks(char, st.current_feature)
    THEN [current_feature |-> char,
          start |-> pos,
          seq_data |-> IF st.current_feature # None
                       THEN AddRun(st.seq_data, st.current_feature,
                                   st.start, pos - st.start)
                       ELSE st.seq_data]
    ELSE st

\* Line 163: `for pos, char in enumerate(topology)` from pos (0-based) on.
RECURSIVE ScanFrom(_, _, _)
ScanFrom(topo, pos, st) ==
    IF pos >= Len(topo) THEN st
    ELSE ScanFrom(topo, pos + 1, ScanChar(st, pos, topo[pos + 1]))

\* The scan without the close of the last run.
FinalRun_Skipped(st, len) == st.seq_data

\* The last run closed one position early.
FinalRun_OffByOne(st, len) ==
    IF st.current_feature # None
    THEN AddRun(st.seq_data, st.current_feature, st.start, len - st.start - 1)
    ELSE st.seq_data

\* Lines 172-176: close the last run at len(topology).
FinalRun(st, len) ==
    IF st.current_feature # None
    THEN AddRun(st.seq_data, st.current_feature, st.start, len - st.start)
    ELSE st.seq_data

\* Lines 159-176 for one isoform.
EncodeTopology(topo) ==
    FinalRun(ScanFrom(topo, 0, [current_feature |-> None, start |-> None,
                                seq_data |-> EmptySeqData]),
             Len(topo))

(***************************************************************************)
(* create_membrane_topology_objects for one isoform, in its three phases.  *)
(***************************************************************************)
InitTopology ==
    /\ pc = "project"
    /\ error = None
    /\ aligned_seq \in SeqsUpTo(AlignChars, MaxLen)
    /\ topology \in SeqsUpTo(TopoChars, MaxLen)
    /\ full_topology = None
    /\ seq_data = None
    /\ files = None
    /\ IsoformIdle
    /\ BoxplotIdle
    /\ FigureIdle
    /\ ObjectsIdle
    /\ AppIdle
    /\ AlignIdle

\* Lines 137-151.  An IndexError leaves the function: nothing is caught.
ProjectTopology ==
    /\ pc = "project"
    /\ LET r == ProjectTopologyOf(aligned_seq, topology)
       IN  IF r.err = None
           THEN /\ full_topology' = r.full_topology
                /\ pc' = "encode"
                /\ error' = None
           ELSE /\ full_topology' = None
                /\ pc' = "failed"
                /\ error' = r.err
    /\ UNCHANGED <<aligned_seq, topology, seq_data, files, isoVars, boxVars, figVars, objVars, appVars, alignVars>>

\* Lines 155-177.
EncodeSegments ==
    /\ pc = "encode"
    /\ seq_data' = EncodeTopology(full_topology)
    /\ pc' = "save"
    /\ UNCHANGED <<error, aligned_seq, topology, full_topology, files, isoVars, boxVars, figVars, objVars, appVars, alignVars>>

\* Lines 180-183: membrane_topology.csv and sequences_data.json.
SaveTopology ==
    /\ pc = "save"
    /\ files' = [membrane_topology_csv |-> [sequence |-> aligned_seq,
                                            topology |-> full_topology],
                 sequences_data_json |-> seq_data]
    /\ pc' = "done"
    /\ UNCHANGED <<error, aligned_seq, topology, full_topology, seq_data, isoVars, boxVars, figVars, objVars, appVars, alignVars>>

NextTopology == ProjectTopology \/ EncodeSegments \/ SaveTopology

SpecTopology == InitTopology /\ [][NextTopology]_vars

\* The labels create_topology_plot knows: plots_generation.py:10-16.
color_map ==
    ("S" :> "#FF0000") @@ ("O" :> "#E69F00") @@ ("I" :> "#95B8C8")
        @@ ("-" :> "#808080") @@ ("M" :> "#006D6F")

\* plots_generation.py:43: color_map.get(feature, '#000000').
ColorOf(feature) ==
    IF feature \in DOMAIN color_map THEN color_map[feature] ELSE "#000000"

\* A predicted topology may hold a label the plot does not know, such as "B"
\* (beta strand): the file is read as it is, topology.py:142.
RawTopoChars == {"S", "M", "B"}

\* Residues and the gap marker.
RawAlignChars == {"A", "-"}

InitTopologyRaw ==
    /\ pc = "project"
    /\ error = None
    /\ aligned_seq \in SeqsUpTo(RawAlignChars, MaxLen)
    /\ topology \in SeqsUpTo(RawTopoChars, MaxLen)
    /\ full_topology = None
    /\ seq_data = None
    /\ files = None
    /\ IsoformIdle
    /\ BoxplotIdle
    /\ FigureIdle
    /\ ObjectsIdle
    /\ AppIdle
    /\ AlignIdle

\* The same function on topologies that may hold an unknown label.
SpecTopologyRaw == InitTopologyRaw /\ [][NextTopology]_vars

(***************************************************************************)
(* Vocabulary of the topology claims.                                      *)
(***************************************************************************)
RECURSIVE StripGaps(_)
StripGaps(s) ==
    IF s = <<>> THEN <<>>
    ELSE IF Head(s) = "-" THEN StripGaps(Tail(s))
         ELSE <<Head(s)>> \o StripGaps(Tail(s))

NonGapCount(s) == Cardinality({i \in 1..Len(s) : s[i] # "-"})

Projected == pc \in {"encode", "save", "done"}
Encoded == pc \in {"save", "done"}

\* Every run of the segment map as [label, k, start, width].
RunsOf(sd) ==
    {[label |-> c, k |-> k, start |-> sd.runs[c][k][1], width |-> sd.runs[c][k][2]] :
        <<c, k>> \in UNION {{<<c, k>> : k \in 1..Len(sd.runs[c])} : c \in DOMAIN sd.runs}}

Covers(r, i) == r.start <= i /\ i < r.start + r.width

\* The (position, label) pairs written when every run is expanded.
Written(sd) ==
    UNION {{<<i, r.label>> : i \in r.start..(r.start + r.width - 1)} : r \in RunsOf(sd)}


(***************************************************************************)
(* Claims on the Alignment Projector and the Segment Encoder               *)
(* (SpecTopology).                                                         *)
(***************************************************************************)

\* C1: when the raw topology has exactly as many labels as the aligned
\* sequence has non-gap characters, the projection succeeds, the projected
\* string is as long as the aligned sequence, and deleting its gaps gives the
\* raw topology back.
C1_ProjectorRoundTrip ==
    (pc # "project" /\ NonGapCount(aligned_seq) = Len(topology))
        => /\ Projected
           /\ error = None
           /\ Len(full_topology) = Len(aligned_seq)
           /\ StripGaps(full_topology) = topology

C1_Witness ==
    /\ pc = "encode"
    /\ NonGapCount(aligned_seq) = Len(topology)
    /\ Len(topology) >= 2
    /\ Len(aligned_seq) > Len(topology)
    /\ topology[1] # topology[2]
    /\ StripGaps(full_topology) = topology

\* C2: when the number of non-gap characters of the aligned sequence differs
\* from the length of the raw topology, the projection fails and produces no
\* projected string.  (Stated with any raised exception accepted as the
\* failure; the claim asks for a LengthMismatchError, which is stronger.)
C2_LengthMismatchRejected ==
    (pc # "project" /\ NonGapCount(aligned_seq) # Len(topology))
        => (error # None /\ full_topology = None)

\* C3: the intervals [start, start+width) of all runs of all labels lie in
\* [0, L) and every position of [0, L) is covered by exactly one of them.
C3_SegmentPartition ==
    Encoded =>
        LET L == Len(full_topology)
            R == RunsOf(seq_data)
        IN  /\ \A r \in R : r.start >= 0 /\ r.start + r.width <= L
            /\ \A i \in 0..(L - 1) : Cardinality({r \in R : Covers(r, i)}) = 1

C3_Witness ==
    /\ pc = "save"
    /\ Len(full_topology) = MaxLen
    /\ Cardinality(DOMAIN seq_data.runs) >= 2
    /\ \E c \in DOMAIN seq_data.runs : Len(seq_data.runs[c]) >= 2

\* C4: writing each label over every position of each of its runs writes
\* exactly the characters of the encoded string, one per position.
C4_SegmentRoundTrip ==
    Encoded =>
        Written(seq_data)
          = {<<i, full_topology[i + 1]>> : i \in 0..(Len(full_topology) - 1)}

C4_Witness ==
    /\ pc = "save"
    /\ full_topology = <<"M", "-", "M", "S">>
    /\ seq_data.keys = <<"M", "-", "S">>
    /\ seq_data.runs["M"] = <<<<0, 1>>, <<2, 1>>>>

\* C5: the projected string has a gap exactly where the aligned sequence has
\* one, and elsewhere holds the label T[j], j the number of non-gap
\* characters before the position: the labels, never the residues.
C5_ProjectorPointwise ==
    Projected =>
        /\ Len(full_topology) = Len(aligned_seq)
        /\ \A i \in 1..Len(aligned_seq) :
              /\ (full_topology[i] = "-") <=> (aligned_seq[i] = "-")
              /\ aligned_seq[i] # "-" =>
                    LET j == NonGapCount(SubSeq(aligned_seq, 1, i - 1))
                    IN  j < Len(topology) /\ full_topology[i] = topology[j + 1]

\* The spec's example A = "AC-GT", T = "SSMM", P = "SS-MM", one residue shorter.
C5_Witness ==
    /\ pc = "encode"
    /\ aligned_seq = <<"A", "-", "S", "A">>
    /\ topology = <<"S", "M", "M">>
    /\ full_topology = <<"S", "-", "M", "M">>

\* C6: every run has a positive width, is maximal (the characters next to it
\* carry another label), and the runs of one label are listed in increasing
\* order with at least one position between two of them.
C6_MaximalRuns ==
    Encoded =>
        LET L == Len(full_topology)
        IN  /\ \A r \in RunsOf(seq_data) :
                  /\ r.width > 0
                  /\ r.start >= 0 /\ r.start + r.width <= L
                  /\ \A i \in r.start..(r.start + r.width - 1) :
                        full_topology[i + 1] = r.label
                  /\ r.start > 0 => full_topology[r.start] # r.label
                  /\ r.start + r.width < L
                        => full_topology[r.start + r.width + 1] # r.label
            /\ \A c \in DOMAIN seq_data.runs :
                  \A k \in 1..(Len(seq_data.runs[c]) - 1) :
                      seq_data.runs[c][k + 1][1]
                        > seq_data.runs[c][k][1] + seq_data.runs[c][k][2]

\* The spec's example "MMM--SS", at the model's length.
C6_Witness ==
    /\ pc = "save"
    /\ full_topology = <<"M", "M", "-", "S">>
    /\ seq_data.keys = <<"M", "-", "S">>
    /\ seq_data.runs["M"] = <<<<0, 2>>>>
    /\ seq_data.runs["-"] = <<<<2, 1>>>>
    /\ seq_data.runs["S"] = <<<<3, 1>>>>

(***************************************************************************)
(* Isoform Grouper: get_transcripts_and_sequences (topology.py:32-37) and  *)
(* generate_isoform_mapping (topology.py:81-121).                          *)
(*                                                                         *)
(* A Python dict is the sequence of its [key, value] items in insertion    *)
(* order, keys distinct.  isoforms.fasta is its text, character by         *)
(* character, so the header is really joined with "|" when written and     *)
(* split at "|" when read.                                                 *)
(***************************************************************************)
MaxTranscripts == 3

\* Transcript ids.  As strings "0" < "01" < "1" < "10": one id is a prefix of
\* another, and the string order differs from the numeric one.
TranscriptIds == {<<"0">>, <<"0", "1">>, <<"1">>, <<"1", "0">>}

\* Protein sequences returned by the sequence service.
ProteinSeqs == {<<"M">>, <<"M", "K">>, <<"M", "A">>}

\* Code points of the characters of an id, for Python's string comparison.
Ord == ("0" :> 48) @@ ("1" :> 49)

Whitespace == {"\n", " "}

Range(f) == {f[i] : i \in DOMAIN f}

\* Every order in which the elements of a finite set can be iterated.
OrdersOf(S) == {o \in [1..Cardinality(S) -> S] : Range(o) = S}

\* All dicts of at most n items with keys in K and values in V.
DictsUpTo(K, V, n) ==
    {d \in SeqsUpTo([key : K, value : V], n) :
        \A i, k \in 1..Len(d) : d[i].key = d[k].key => i = k}

RECURSIVE Concat(_)
Concat(ss) == IF ss = <<>> THEN <<>> ELSE Head(ss) \o Concat(Tail(ss))

\* sep.join(parts)
RECURSIVE Join(_, _)
Join(parts, sep) ==
    IF parts = <<>> THEN <<>>
    ELSE IF Len(parts) = 1 THEN parts[1]
         ELSE parts[1] \o <<sep>> \o Join(Tail(parts), sep)

\* s.split(sep) for a one-character sep: never empty, "".split(sep) is [""].
RECURSIVE SplitAcc(_, _, _)
SplitAcc(s, sep, cur) ==
    IF s = <<>> THEN <<cur>>
    ELSE IF Head(s) = sep THEN <<cur>> \o SplitAcc(Tail(s), sep, <<>>)
         ELSE SplitAcc(Tail(s), sep, Append(cur, Head(s)))

Split(s, sep) == SplitAcc(s, sep, <<>>)

\* f.readlines(): the lines, each with its "\n"; a text ending in "\n" has no
\* empty last line.
RECURSIVE ReadLinesAcc(_, _)
ReadLinesAcc(text, cur) ==
    IF text = <<>> THEN (IF cur = <<>> THEN <<>> ELSE <<cur>>)
    ELSE IF Head(text) = "\n" THEN <<Append(cur, "\n")>> \o ReadLinesAcc(Tail(text), <<>>)
         ELSE ReadLinesAcc(Tail(text), Append(cur, Head(text)))

ReadLines(text) == ReadLinesAcc(text, <<>>)

\* line.strip()
RECURSIVE LStrip(_)
LStrip(s) == IF s # <<>> /\ Head(s) \in Whitespace THEN LStrip(Tail(s)) ELSE s

RECURSIVE RStrip(_)
RStrip(s) ==
    IF s # <<>> /\ s[Len(s)] \in Whitespace THEN RStrip(SubSeq(s, 1, Len(s) - 1)) ELSE s

Strip(s) == RStrip(LStrip(s))

\* a < b for Python strings: by code point, a proper prefix is smaller.
RECURSIVE LexLess(_, _)
LexLess(a, b) ==
    IF a = <<>> THEN b # <<>>
    ELSE IF b = <<>> THEN FALSE
         ELSE IF Ord[Head(a)] # Ord[Head(b)] THEN Ord[Head(a)] < Ord[Head(b)]
              ELSE LexLess(Tail(a), Tail(b))

\* list.sort(key=...) on [key, value] items: stable, so x goes after the
\* items whose key is not greater than its own.
SortedInsert(sorted, x) ==
    LET n == Cardinality({i \in 1..Len(sorted) : ~LexLess(x.key, sorted[i].key)})
    IN  SubSeq(sorted, 1, n) \o <<x>> \o SubSeq(sorted, n + 1, Len(sorted))

RECURSIVE StableSortAcc(_, _)
StableSortAcc(items, sorted) ==
    IF items = <<>> THEN sorted
    ELSE StableSortAcc(Tail(items), SortedInsert(sorted, Head(items)))

StableSort(items) == StableSortAcc(items, <<>>)

\* Line 32: set(protein_sequences.values()).
UniqueSequences(ps) == {ps[i].value : i \in 1..Len(ps)}

\* The first id only of a sequence that several transcripts share.
IdsWithSequence_FirstOnly(ps, seq) ==
    LET idx == {i \in 1..Len(ps) : ps[i].value = seq}
        first == CHOOSE i \in idx : \A k \in idx : i <= k
    IN  <<ps[first].key>>

\* Line 35: ids = [k for k, v in protein_sequences.items() if v == seq].
RECURSIVE IdsWithSequence(_, _)
IdsWithSequence(ps, seq) ==
    IF ps = <<>> THEN <<>>
    ELSE (IF Head(ps).value = seq THEN <<Head(ps).key>> ELSE <<>>)
            \o IdsWithSequence(Tail(ps), seq)

\* Lines 35-37: one record of isoforms.fasta, f"{header}\n{seq}\n".
FastaRecord(ps, seq) ==
    (<<">">> \o Join(IdsWithSequence(ps, seq), "|")) \o <<"\n">> \o seq \o <<"\n">>

\* Lines 33-37: the records in the iteration order of the set.
FastaText(ps, order) == Concat([i \in 1..Len(order) |-> FastaRecord(ps, order[i])])

\* Lines 86-87: the header lines, stripped, without their ">".
HeadersOf(text) ==
    LET lines == ReadLines(text)
        hl == SelectSeq(lines, LAMBDA line : line # <<>> /\ Head(line) = ">")
    IN  [i \in 1..Len(hl) |-> Tail(Strip(hl[i]))]

\* Lines 95-102: one entry of temp_list.  transcript_ids.sort() sorts the ids.
TempEntry(header) ==
    LET ids == Split(header, "|")
        sorted == StableSort([i \in 1..Len(ids) |-> [key |-> ids[i], value |-> ids[i]]])
        transcript_ids == [i \in 1..Len(sorted) |-> sorted[i].value]
    IN  [header |-> header,
         representative |-> transcript_ids[1],
         all_ids |-> transcript_ids]

\* The groups numbered in the order of the file.
SortByRepresentative_Skipped(temp_list) == temp_list

\* Line 105: temp_list.sort(key=lambda x: x["representative"]).
SortByRepresentative(temp_list) ==
    LET sorted == StableSort([i \in 1..Len(temp_list) |->
                                [key |-> temp_list[i].representative,
                                 value |-> temp_list[i]]])
    IN  [i \in 1..Len(sorted) |-> sorted[i].value]

\* str(n) for n >= 0: the decimal digits.
DigitChars == <<"0", "1", "2", "3", "4", "5", "6", "7", "8", "9">>

RECURSIVE Str(_)
Str(n) == IF n < 10 THEN <<DigitChars[n + 1]>>
          ELSE Str(n \div 10) \o <<DigitChars[(n % 10) + 1]>>

\* Line 110: f"Isoform {i+1}": the word, a space and the number.
IsoformName(i) == <<"I", "s", "o", "f", "o", "r", "m", " ">> \o Str(i + 1)

\* Lines 116-117: pd.DataFrame([]) has no column, so
\* sort_values("Transcript_ID") raises KeyError.
SortValuesRaises(rows) == rows = <<>>

\* d[key] = value on a dict: a new key goes last, a known key keeps its place.
DictSet(d, key, value) ==
    IF \E i \in 1..Len(d) : d[i].key = key
    THEN [i \in 1..Len(d) |-> IF d[i].key = key THEN [key |-> key, value |-> value]
                                                ELSE d[i]]
    ELSE Append(d, [key |-> key, value |-> value])

\* Lines 109-111: header_mapping after the items from i (1-based) on.
RECURSIVE HeaderMappingFrom(_, _, _)
HeaderMappingFrom(temp_list, i, hm) ==
    IF i > Len(temp_list) THEN hm
    ELSE HeaderMappingFrom(temp_list, i + 1,
                           DictSet(hm, temp_list[i].header, IsoformName(i - 1)))

\* Lines 109-113: the rows appended to transcript_mapping.
TranscriptRows(temp_list) ==
    Concat([i \in 1..Len(temp_list) |->
              [k \in 1..Len(temp_list[i].all_ids) |->
                  [Transcript_ID |-> temp_list[i].all_ids[k],
                   Isoform_ID |-> IsoformName(i - 1)]]])

\* Line 117: mapping_df.sort_values("Transcript_ID").
SortByTranscriptId(rows) ==
    LET sorted == StableSort([i \in 1..Len(rows) |->
                                [key |-> rows[i].Transcript_ID, value |-> rows[i]]])
    IN  [i \in 1..Len(sorted) |-> sorted[i].value]

InitIsoform ==
    /\ pc = "fetch"
    /\ error = None
    /\ protein_sequences \in DictsUpTo(TranscriptIds, ProteinSeqs, MaxTranscripts)
    /\ fasta = None
    /\ header_mapping = None
    /\ transcript_mapping = None
    /\ TopologyIdle
    /\ BoxplotIdle
    /\ FigureIdle
    /\ ObjectsIdle
    /\ AppIdle
    /\ AlignIdle

\* get_transcripts_and_sequences, lines 32-37.  A set is iterated in an
\* order the program does not choose.
WriteIsoformsFasta ==
    /\ pc = "fetch"
    /\ \E order \in OrdersOf(UniqueSequences(protein_sequences)) :
          fasta' = FastaText(protein_sequences, order)
    /\ pc' = "map"
    /\ UNCHANGED <<error, protein_sequences, header_mapping, transcript_mapping, topoVars, boxVars, figVars, objVars, appVars, alignVars>>

\* generate_isoform_mapping, lines 83-121.  A DataFrame built from an empty
\* list has no column: sort_values("Transcript_ID") raises KeyError, before
\* the table is saved and the mapping returned.
GenerateIsoformMapping ==
    /\ pc = "map"
    /\ LET temp_list == SortByRepresentative(
                            [i \in 1..Len(HeadersOf(fasta)) |->
                                TempEntry(HeadersOf(fasta)[i])])
           rows == TranscriptRows(temp_list)
       IN  IF SortValuesRaises(rows)
           THEN /\ pc' = "failed"
                /\ error' = "KeyError"
                /\ UNCHANGED <<header_mapping, transcript_mapping>>
           ELSE /\ pc' = "mapped"
                /\ error' = None
                /\ header_mapping' = HeaderMappingFrom(temp_list, 1, <<>>)
                /\ transcript_mapping' = SortByTranscriptId(rows)
    /\ UNCHANGED <<protein_sequences, fasta, topoVars, boxVars, figVars, objVars, appVars, alignVars>>

NextIsoform == WriteIsoformsFasta \/ GenerateIsoformMapping

SpecIsoform == InitIsoform /\ [][NextIsoform]_vars

(***************************************************************************)
(* Claims on the Isoform Grouper (SpecIsoform).                            *)
(***************************************************************************)
Mapped == pc = "mapped"

TranscriptsOf(ps) == {ps[i].key : i \in 1..Len(ps)}

SequenceOf(ps, t) == ps[CHOOSE i \in 1..Len(ps) : ps[i].key = t].value

\* The isoform names the mapping table gives to transcript t.
LabelsOf(rows, t) ==
    {rows[k].Isoform_ID : k \in {k \in 1..Len(rows) : rows[k].Transcript_ID = t}}

\* C7: every transcript is in exactly one header group of isoforms.fasta and
\* has exactly one row, hence one isoform name; two transcripts have the same
\* name exactly when their sequences are equal; there are as many isoforms as
\* distinct sequences.
C7_IsoformPartition ==
    Mapped =>
        LET T == TranscriptsOf(protein_sequences)
            headers == HeadersOf(fasta)
        IN  /\ \A t \in T :
                  /\ Cardinality({h \in 1..Len(headers) :
                                     t \in Range(Split(headers[h], "|"))}) = 1
                  /\ Cardinality({k \in 1..Len(transcript_mapping) :
                                     transcript_mapping[k].Transcript_ID = t}) = 1
            /\ \A k \in 1..Len(transcript_mapping) :
                  transcript_mapping[k].Transcript_ID \in T
            /\ \A h \in 1..Len(headers) : Range(Split(headers[h], "|")) \subseteq T
            /\ \A t1, t2 \in T :
                  (LabelsOf(transcript_mapping, t1) = LabelsOf(transcript_mapping, t2))
                    <=> (SequenceOf(protein_sequences, t1) = SequenceOf(protein_sequences, t2))
            /\ Cardinality({transcript_mapping[k].Isoform_ID :
                               k \in 1..Len(transcript_mapping)})
                 = Cardinality(UniqueSequences(protein_sequences))
            /\ Len(header_mapping) = Cardinality(UniqueSequences(protein_sequences))

\* Two transcripts with one sequence and a third with another: two isoforms.
C7_Witness ==
    /\ Mapped
    /\ Len(protein_sequences) = 3
    /\ protein_sequences[1].value = protein_sequences[3].value
    /\ protein_sequences[1].value # protein_sequences[2].value
    /\ Len(header_mapping) = 2
    /\ LabelsOf(transcript_mapping, protein_sequences[1].key)
         = LabelsOf(transcript_mapping, protein_sequences[3].key)

\* The smallest id, as strings, among the transcripts with sequence s.
MinIdOf(ps, s) ==
    CHOOSE t \in TranscriptsOf(ps) :
        /\ SequenceOf(ps, t) = s
        /\ \A u \in TranscriptsOf(ps) : SequenceOf(ps, u) = s => ~LexLess(u, t)

\* The rank of s among the distinct sequences, by smallest transcript id.
RankOf(ps, s) ==
    Cardinality({s2 \in UniqueSequences(ps) :
                    ~LexLess(MinIdOf(ps, s), MinIdOf(ps, s2))})

\* C8: the group whose smallest transcript id is the k-th smallest of all
\* groups is numbered k, whatever the order of the records in isoforms.fasta
\* and of the ids in a header: the table is a function of the
\* transcript -> sequence mapping alone.
C8_NumberingOrderIndependent ==
    Mapped =>
        /\ {transcript_mapping[k].Transcript_ID : k \in 1..Len(transcript_mapping)}
             = TranscriptsOf(protein_sequences)
        /\ \A k \in 1..Len(transcript_mapping) :
              transcript_mapping[k].Isoform_ID
                = IsoformName(RankOf(protein_sequences,
                                     SequenceOf(protein_sequences,
                                                transcript_mapping[k].Transcript_ID)) - 1)
        /\ \A k \in 1..(Len(transcript_mapping) - 1) :
              LexLess(transcript_mapping[k].Transcript_ID,
                      transcript_mapping[k + 1].Transcript_ID)

\* Two groups, the one with the smallest id written last and its ids not in
\* sorted order in the header.
C8_Witness ==
    /\ Mapped
    /\ Len(header_mapping) = 2
    /\ Len(protein_sequences) = 3
    /\ LexLess(protein_sequences[3].key, protein_sequences[1].key)
    /\ protein_sequences[1].value = protein_sequences[3].value
    /\ LET headers == HeadersOf(fasta)
       IN  /\ Len(headers) = 2
           /\ protein_sequences[2].key \in Range(Split(headers[1], "|"))
           /\ LexLess(protein_sequences[3].key, protein_sequences[2].key)
    /\ header_mapping[1].key = HeadersOf(fasta)[2]

(***************************************************************************)
(* Expression Statistics Aggregator: get_boxplot_stats                     *)
(* (expression.py:136-170) on the values of one group.                     *)
(*                                                                         *)
(* The values are integers and every statistic is kept in eighths (the     *)
(* record holds 8 times the number the code computes): quartiles of        *)
(* integers by linear interpolation are multiples of 1/4 and 1.5 times     *)
(* their difference is a multiple of 1/8, so the arithmetic is exact, as   *)
(* it is in binary floating point for such values.                         *)
(***************************************************************************)
MaxGroup == 4
MaxValue == 2

ExpressionValues == (-MaxValue)..MaxValue

\* A group with a far outlier: the values 1..5 and 100.
ExampleGroup == <<1, 2, 3, 4, 5, 100>>

\* The values in increasing order, as the quantile computation orders them.
RECURSIVE SortValues(_)
SortValues(vs) ==
    IF vs = <<>> THEN <<>>
    ELSE LET rest == SortValues(Tail(vs))
             n == Cardinality({i \in 1..Len(rest) : rest[i] <= Head(vs)})
         IN  SubSeq(rest, 1, n) \o <<Head(vs)>> \o SubSeq(rest, n + 1, Len(rest))

\* The quantile with interpolation "lower": the order statistic at floor h.
Quantile_Lower(vs, p4) ==
    LET x == SortValues(vs)
        h4 == p4 * (Len(x) - 1)
    IN  8 * x[(h4 \div 4) + 1]

\* Series.quantile(p4 / 4), pandas' default interpolation "linear", in
\* eighths: h = p * (n - 1), x[floor h] + (h - floor h) * (x[ceil h] - x[floor h]).
Quantile(vs, p4) ==
    LET x == SortValues(vs)
        h4 == p4 * (Len(x) - 1)
        lo == h4 \div 4
        fr == h4 % 4
        hi == IF fr = 0 THEN lo ELSE lo + 1
    IN  8 * x[lo + 1] + 2 * fr * (x[hi + 1] - x[lo + 1])

\* Series.median(): the middle value, or the mean of the two middle values.
Median(vs) ==
    LET x == SortValues(vs)
        n == Len(x)
    IN  IF n % 2 = 1 THEN 8 * x[(n + 1) \div 2]
        ELSE 4 * (x[n \div 2] + x[n \div 2 + 1])

\* The lower limit with the sign of the whisker term flipped.
LowLimit_PlusSign(q1, iqr) == q1 + 3 * (iqr \div 2)

\* Line 147: q1 - 1.5 * iqr (iqr is an even number of eighths).
LowLimit(q1, iqr) == q1 - 3 * (iqr \div 2)

\* Line 148: q3 + 1.5 * iqr.
HighLimit(q3, iqr) == q3 + 3 * (iqr \div 2)

\* The inside data with the two limits excluded.
InsideData_Exclusive(vs, low_limit, high_limit) ==
    SelectSeq(vs, LAMBDA v : 8 * v > low_limit /\ 8 * v < high_limit)

\* Line 151: group_data[(group_data >= low_limit) & (group_data <= high_limit)].
InsideData(vs, low_limit, high_limit) ==
    SelectSeq(vs, LAMBDA v : 8 * v >= low_limit /\ 8 * v <= high_limit)

MinOf(vs) == CHOOSE v \in Range(vs) : \A w \in Range(vs) : v <= w
MaxOf(vs) == CHOOSE v \in Range(vs) : \A w \in Range(vs) : v >= w

\* Line 155.
LowerFence(inside_data, q1) == IF inside_data # <<>> THEN 8 * MinOf(inside_data) ELSE q1

\* Line 156.
UpperFence(inside_data, q3) == IF inside_data # <<>> THEN 8 * MaxOf(inside_data) ELSE q3

\* The fliers with the upper comparison made inclusive.
Fliers_Inclusive(vs, lowerfence, upperfence) ==
    SelectSeq(vs, LAMBDA v : 8 * v < lowerfence \/ 8 * v >= upperfence)

\* Line 159: group_data[(group_data < lowerfence) | (group_data > upperfence)].
Fliers(vs, lowerfence, upperfence) ==
    SelectSeq(vs, LAMBDA v : 8 * v < lowerfence \/ 8 * v > upperfence)

\* Lines 141-168: the statistics of the record (in eighths) and its outliers.
BoxplotStats(vs) ==
    LET med == Median(vs)
        q1 == Quantile(vs, 1)
        q3 == Quantile(vs, 3)
        iqr == q3 - q1
        low_limit == LowLimit(q1, iqr)
        high_limit == HighLimit(q3, iqr)
        inside_data == InsideData(vs, low_limit, high_limit)
        lowerfence == LowerFence(inside_data, q1)
        upperfence == UpperFence(inside_data, q3)
    IN  [median |-> med, q1 |-> q1, q3 |-> q3,
         lowerfence |-> lowerfence, upperfence |-> upperfence,
         y |-> Fliers(vs, lowerfence, upperfence)]

\* The value that is not a number, held as an integer that no expression
\* value of the model equals.
NaN == -1000

\* The values that pandas' reductions and comparisons see: median() and
\* quantile() skip NaN, and every comparison with NaN is False, so NaN is in
\* neither inside_data nor the fliers.
DropNa(vs) == SelectSeq(vs, LAMBDA v : v # NaN)

\* Lines 141-168 on a group that may hold NaN: the statistics of the other
\* values; of a group of NaN only, the median and the quartiles are NaN,
\* inside_data is empty, so the fences are q1 and q3, and there is no flier.
GetBoxplotStatsOf(vs) ==
    IF DropNa(vs) # <<>> THEN BoxplotStats(DropNa(vs))
    ELSE [median |-> NaN, q1 |-> NaN, q3 |-> NaN,
          lowerfence |-> NaN, upperfence |-> NaN, y |-> <<>>]

\* groupby(...) calls get_boxplot_stats on the groups present in the table:
\* a group has at least one value.
InitBoxplot ==
    /\ pc = "group"
    /\ error = None
    /\ group_data \in (SeqsUpTo(ExpressionValues, MaxGroup) \ {<<>>}) \cup {ExampleGroup}
    /\ stats = None
    /\ TopologyIdle
    /\ IsoformIdle
    /\ FigureIdle
    /\ ObjectsIdle
    /\ AppIdle
    /\ AlignIdle

GetBoxplotStats ==
    /\ pc = "group"
    /\ stats' = GetBoxplotStatsOf(group_data)
    /\ pc' = "stats"
    /\ UNCHANGED <<error, group_data, topoVars, isoVars, figVars, objVars, appVars, alignVars>>

NextBoxplot == GetBoxplotStats

SpecBoxplot == InitBoxplot /\ [][NextBoxplot]_vars

\* The same function on groups whose values may be NaN: melt (line 122) keeps
\* the missing values of the table.
InitBoxplotRaw ==
    /\ pc = "group"
    /\ error = None
    /\ group_data \in SeqsUpTo(ExpressionValues \cup {NaN}, MaxGroup) \ {<<>>}
    /\ stats = None
    /\ TopologyIdle
    /\ IsoformIdle
    /\ FigureIdle
    /\ ObjectsIdle
    /\ AppIdle
    /\ AlignIdle

SpecBoxplotRaw == InitBoxplotRaw /\ [][NextBoxplot]_vars

(***************************************************************************)
(* Claims on the Expression Statistics Aggregator (SpecBoxplot).           *)
(***************************************************************************)
HasStats == pc = "stats"

CountIn(vs, v) == Cardinality({i \in 1..Len(vs) : vs[i] = v})

\* C9: the median lies between the fences.
C9_FenceOrdering ==
    HasStats => (stats.lowerfence <= stats.median /\ stats.median <= stats.upperfence)

\* A group with an outlier above the upper fence, the median on the upper
\* fence and the lower fence below it: [-2, -1, -1, 2] in some order.
C9_Witness ==
    /\ HasStats
    /\ Len(group_data) = 4
    /\ stats.y = <<2>>
    /\ stats.lowerfence = -16
    /\ stats.median = -8
    /\ stats.upperfence = -8

\* C10: the outlier list holds exactly the values of the group strictly
\* below the lower fence or strictly above the upper fence, as often as the
\* group holds them; the other values lie within the fences.
C10_OutlierClassification ==
    HasStats =>
        /\ \A k \in 1..Len(stats.y) :
              8 * stats.y[k] < stats.lowerfence \/ 8 * stats.y[k] > stats.upperfence
        /\ \A v \in Range(group_data) \cup Range(stats.y) :
              IF 8 * v < stats.lowerfence \/ 8 * v > stats.upperfence
              THEN CountIn(stats.y, v) = CountIn(group_data, v)
              ELSE /\ CountIn(stats.y, v) = 0
                   /\ stats.lowerfence <= 8 * v
                   /\ 8 * v <= stats.upperfence

\* A group with a value on the upper fence, kept out of the list, and an
\* outlier above it.
C10_Witness ==
    /\ HasStats
    /\ Len(stats.y) = 1
    /\ 8 * stats.y[1] > stats.upperfence
    /\ \E i \in 1..Len(group_data) : 8 * group_data[i] = stats.upperfence
    /\ stats.lowerfence < stats.upperfence

\* C11: with iqr = q3 - q1 and the values within [q1 - 1.5 iqr, q3 + 1.5 iqr],
\* limits included, as the inside values: the fences are the smallest and the
\* largest inside value, or q1 and q3 when there is no inside value.
\* (Compared in sixteenths: 16 v against 2 q1 - 3 iqr and 2 q3 + 3 iqr.)
C11_FenceDefinition ==
    HasStats =>
        LET iqr == stats.q3 - stats.q1
            inside == {v \in Range(group_data) :
                          /\ 16 * v >= 2 * stats.q1 - 3 * iqr
                          /\ 16 * v <= 2 * stats.q3 + 3 * iqr}
        IN  IF inside # {}
            THEN /\ \E v \in inside : stats.lowerfence = 8 * v
                 /\ \E v \in inside : stats.upperfence = 8 * v
                 /\ \A v \in inside : stats.lowerfence <= 8 * v /\ 8 * v <= stats.upperfence
            ELSE stats.lowerfence = stats.q1 /\ stats.upperfence = stats.q3

\* Values on both limits, which are the fences: [0, 1, 1, 2] has q1 = 0.75,
\* q3 = 1.25, limits 0 and 2.
C11_Witness ==
    /\ HasStats
    /\ stats.q3 > stats.q1
    /\ 2 * stats.lowerfence = 2 * stats.q1 - 3 * (stats.q3 - stats.q1)
    /\ 2 * stats.upperfence = 2 * stats.q3 + 3 * (stats.q3 - stats.q1)
    /\ stats.y = <<>>

\* The k-th smallest value (k from 0), without sorting.
OrderStat(vs, k) ==
    CHOOSE v \in Range(vs) :
        /\ Cardinality({i \in 1..Len(vs) : vs[i] < v}) <= k
        /\ k < Cardinality({i \in 1..Len(vs) : vs[i] <= v})

\* x_floor(h) + (h - floor(h)) * (x_ceil(h) - x_floor(h)), h = (p4 / 4) * (n - 1),
\* in eighths.
Interpolated(vs, p4) ==
    LET h4 == p4 * (Len(vs) - 1)
        f == h4 \div 4
        c == (h4 + 3) \div 4
    IN  8 * OrderStat(vs, f) + 2 * (h4 - 4 * f) * (OrderStat(vs, c) - OrderStat(vs, f))

\* C12: q1, the median and q3 are the 0.25, 0.5 and 0.75 quantiles by linear
\* interpolation between order statistics; the values 1, 2, 3, 4, 5, 100
\* give q1 = 2.25, q3 = 4.75, iqr = 2.5, limits -1.5 and 8.5, fences 1 and 5
\* and the outlier 100.
C12_LinearInterpolation ==
    HasStats =>
        /\ stats.q1 = Interpolated(group_data, 1)
        /\ stats.median = Interpolated(group_data, 2)
        /\ stats.q3 = Interpolated(group_data, 3)
        /\ group_data = ExampleGroup =>
              /\ stats.q1 = 18
              /\ stats.q3 = 38
              /\ stats.q3 - stats.q1 = 20
              /\ 2 * stats.q1 - 3 * (stats.q3 - stats.q1) = -24
              /\ 2 * stats.q3 + 3 * (stats.q3 - stats.q1) = 136
              /\ stats.lowerfence = 8
              /\ stats.upperfence = 40
              /\ stats.y = <<100>>

C12_Witness ==
    /\ HasStats
    /\ group_data = ExampleGroup
    /\ stats.q1 = 18
    /\ stats.median = 28
    /\ stats.y = <<100>>

(***************************************************************************)
(* Further claims on the Segment Encoder (SpecTopology).                   *)
(***************************************************************************)

\* The 1-based position of the first c in s.
FirstIndex(s, c) == CHOOSE i \in 1..Len(s) : s[i] = c /\ \A k \in 1..(i - 1) : s[k] # c

\* The 0-based positions where a maximal run of c starts in s.
RunStarts(s, c) ==
    {i \in 0..(Len(s) - 1) : s[i + 1] = c /\ (i = 0 \/ s[i] # c)}

\* The 0-based position just after the maximal run that starts at i.
RunEnd(s, i) ==
    CHOOSE e \in (i + 1)..Len(s) :
        /\ \A k \in i..(e - 1) : s[k + 1] = s[i + 1]
        /\ e = Len(s) \/ s[e + 1] # s[i + 1]

\* The maximal runs of c in s as (start, width), in increasing start order.
MaximalRuns(s, c) ==
    [n \in 1..Cardinality(RunStarts(s, c)) |->
        LET i == CHOOSE i \in RunStarts(s, c) :
                    Cardinality({k \in RunStarts(s, c) : k < i}) = n - 1
        IN  <<i, RunEnd(s, i) - i>>]

\* C13: the labels of the segment map are the characters of the string, each
\* once, in the order of their first appearance; and every label's list is the
\* list of its maximal runs from left to right, so the map, key order and
\* pair order included, is a function of the string alone.
C13_KeyOrderDeterministic ==
    Encoded =>
        /\ DOMAIN seq_data.runs = Range(full_topology)
        /\ Range(seq_data.keys) = Range(full_topology)
        /\ Len(seq_data.keys) = Cardinality(Range(full_topology))
        /\ \A a, b \in 1..Len(seq_data.keys) :
              a < b => FirstIndex(full_topology, seq_data.keys[a])
                         < FirstIndex(full_topology, seq_data.keys[b])
        /\ \A c \in DOMAIN seq_data.runs :
              seq_data.runs[c] = MaximalRuns(full_topology, c)

\* The first label comes back after the two others: it keeps the first key.
C13_Witness ==
    /\ pc = "save"
    /\ full_topology = <<"M", "S", "-", "M">>
    /\ seq_data.keys = <<"M", "S", "-">>
    /\ seq_data.runs["M"] = <<<<0, 1>>, <<3, 1>>>>

\* C14: the empty string gives a map without any label; a string of L >= 1
\* gaps gives the one label "-" with the one pair (0, L).
C14_EncoderEdgeCases ==
    Encoded =>
        /\ full_topology = <<>> =>
              seq_data.keys = <<>> /\ DOMAIN seq_data.runs = {}
        /\ (full_topology # <<>> /\ Range(full_topology) = {"-"}) =>
              /\ seq_data.keys = <<"-">>
              /\ DOMAIN seq_data.runs = {"-"}
              /\ seq_data.runs["-"] = <<<<0, Len(full_topology)>>>>

C14_Witness ==
    /\ pc = "save"
    /\ full_topology = <<"-", "-", "-">>
    /\ seq_data.keys = <<"-">>
    /\ seq_data.runs["-"] = <<<<0, 3>>>>

\* The string a segment map stands for: as long as its runs reach, each
\* position holding the label of a run over it ("?" where there is none).
Decode(sd) ==
    LET R == RunsOf(sd)
        ends == {r.start + r.width : r \in R} \cup {0}
        L == CHOOSE e \in ends : \A e2 \in ends : e2 <= e
    IN  [i \in 1..L |->
            IF \E r \in R : Covers(r, i - 1)
            THEN (CHOOSE r \in R : Covers(r, i - 1)).label
            ELSE "?"]

\* C15: encoding the decoded segment map gives the segment map back.
C15_EncoderIdempotent ==
    Encoded => EncodeTopology(Decode(seq_data)) = seq_data

C15_Witness ==
    /\ pc = "save"
    /\ Len(full_topology) = MaxLen
    /\ Decode(seq_data) = full_topology
    /\ Len(seq_data.keys) = 3
    /\ \E c \in DOMAIN seq_data.runs : Len(seq_data.runs[c]) = 2

(***************************************************************************)
(* Claim on unknown topology labels (SpecTopologyRaw).                     *)
(***************************************************************************)

\* C16: a raw topology with a character outside the known labels is
\* rejected: no segment map with that character as a key is saved, and none
\* would be drawn with the fallback colour.  (Stated on the saved map only:
\* the claim also asks for an UnknownLabelError.)
C16_UnknownLabelRejected ==
    pc = "done" =>
        \A c \in DOMAIN files.sequences_data_json.runs :
            c \in DOMAIN color_map /\ ColorOf(c) # "#000000"

(***************************************************************************)
(* Further claims on the Isoform Grouper (SpecIsoform).                    *)
(***************************************************************************)

\* The label that the claim expects, "Isoform_<k>": the word, an underscore
\* and the number.
IsoformLabel(k) == <<"I", "s", "o", "f", "o", "r", "m", "_">> \o Str(k)

\* C17: with n isoforms, the labels of the mapping are "Isoform_1" ..
\* "Isoform_n", each given to one header, and every row of the table carries
\* one of them.
C17_LabelFormat ==
    Mapped =>
        LET n == Len(header_mapping)
            labels == {IsoformLabel(k) : k \in 1..n}
        IN  /\ {header_mapping[i].value : i \in 1..n} = labels
            /\ \A k \in 1..Len(transcript_mapping) :
                  transcript_mapping[k].Isoform_ID \in labels

\* C18: with no transcript (no header in isoforms.fasta) the
\* grouper fails with EmptyInputError, returns no mapping and writes no
\* mapping table.
C18_EmptyInputError ==
    (pc \in {"mapped", "failed"} /\ HeadersOf(fasta) = <<>>) =>
        /\ pc = "failed"
        /\ error = "EmptyInputError"
        /\ header_mapping = None
        /\ transcript_mapping = None

(***************************************************************************)
(* Expression figure objects: create_expression_figure_objects             *)
(* (expression.py:118-175) on a table of samples.                          *)
(*                                                                         *)
(* A sample is a row with its study, its cancer type and one expression    *)
(* value per transcript column.  The mapping is the header mapping that    *)
(* generate_isoform_mapping returns, with the labels it writes             *)
(* (IsoformName).                                                          *)
(***************************************************************************)
MaxRows == 2

\* The transcript columns: ids of one width, as Ensembl ids are, in the
\* order of the table.
Columns == << <<"0", "0">>, <<"0", "1">>, <<"1", "0">> >>

\* Line 121: the studies kept by merge_expression_and_metadata (line 101),
\* and the cancer types, both in alphabetical order.
Studies == <<"GTEX", "TCGA">>
CancerTypes == <<"Brain", "Lung">>

\* The expression values of a sample, one per column.
SampleValues == { <<0, 0, 0>>, <<1, 2, 0>> }

Samples == [study : Range(Studies), cancer_type : Range(CancerTypes),
            expression : SampleValues]

\* The groups of columns that share a protein, by smallest id.
Groupings ==
    { << <<Columns[1], Columns[2]>>, <<Columns[3]>> >>,
      << <<Columns[1], Columns[3]>>, <<Columns[2]>> >>,
      << <<Columns[1]>>, <<Columns[2]>>, <<Columns[3]>> >> }

\* header_mapping as generate_isoform_mapping builds it (topology.py:109-111)
\* for the groups, the k-th with the k-th label.
MappingOf(groups, labels) ==
    [k \in 1..Len(groups) |-> [key |-> Join(groups[k], "|"), value |-> labels[k]]]

Mappings ==
    {MappingOf(g, [k \in 1..Len(g) |-> IsoformName(k - 1)]) : g \in Groupings}

\* A sequence given by a rule, evaluated once into the list of its items.
List(f) == f \o <<>>

\* Line 121: expression_df[expression_df["study"].isin(["GTEX", "TCGA"])].
FilterStudies(df) == SelectSeq(df, LAMBDA r : r.study \in {"GTEX", "TCGA"})

\* Line 122: melt(id_vars=["cancer_type", "study"]): the rows of the first
\* column, then those of the second, and so on.
Melt(df) ==
    Concat([j \in 1..Len(Columns) |->
              [i \in 1..Len(df) |->
                  [cancer_type |-> df[i].cancer_type,
                   study |-> df[i].study,
                   transcript |-> Columns[j],
                   expression |-> df[i].expression[j]]]])

\* Line 126: x in name, for strings.
Contains(name, x) ==
    \E i \in 0..(Len(name) - Len(x)) : SubSeq(name, i + 1, i + Len(x)) = x

Unknown == <<"U", "n", "k", "n", "o", "w", "n">>

\* Lines 125-127: the label of the first header that holds the transcript
\* id, "Unknown" when there is none.
ProteinOf(m, x) ==
    LET hits == {i \in 1..Len(m) : Contains(m[i].key, x)}
    IN  IF hits = {} THEN Unknown
        ELSE m[CHOOSE i \in hits : \A k \in hits : i <= k].value

\* Lines 124-129: the column "protein".
AssignProtein(rows, m) ==
    List([i \in 1..Len(rows) |->
        [cancer_type |-> rows[i].cancer_type,
         study |-> rows[i].study,
         transcript |-> rows[i].transcript,
         expression |-> rows[i].expression,
         protein |-> ProteinOf(m, rows[i].transcript)]])

\* int(s) for a string of decimal digits.
RECURSIVE ToInt(_)
ToInt(s) ==
    LET d == CHOOSE d \in 0..9 : DigitChars[d + 1] = s[Len(s)]
    IN  IF Len(s) = 1 THEN d ELSE 10 * ToInt(SubSeq(s, 1, Len(s) - 1)) + d

IsDigits(s) == s # <<>> /\ \A i \in 1..Len(s) : s[i] \in Range(DigitChars)

\* Line 130, the sort key: x.str.split("_").str[1].astype(int).  A label
\* without "_" has no second part: .str[1] is NaN and astype(int) raises,
\* as it does on a part that is not a number.
SortKeyRaises(protein) ==
    LET parts == Split(protein, "_")
    IN  Len(parts) < 2 \/ ~IsDigits(parts[2])

SortKey(protein) == ToInt(Split(protein, "_")[2])

\* sort_values: the items by increasing key.  Items with equal keys keep
\* their order in a stable sort; the other outcome modelled has them
\* reversed.
SortByKey(items, key, stable) ==
    LET its == List(items)
        ks == List(key)
        n == Len(its)
        pos == List([i \in 1..n |->
                  Cardinality({k \in 1..n : ks[k] < ks[i]})
                    + Cardinality({k \in 1..n :
                                      ks[k] = ks[i]
                                        /\ (IF stable THEN k < i ELSE k > i)})
                    + 1])
    IN  List([p \in 1..n |-> its[CHOOSE i \in 1..n : pos[i] = p]])

\* Line 130: sort_values(by="protein", key=...), numpy's quicksort: not
\* stable.
SortByProtein(rows, stable) ==
    SortByKey(rows, [i \in 1..Len(rows) |-> SortKey(rows[i].protein)], stable)

\* The 1-based position of x in s.
IndexOf(s, x) == CHOOSE i \in 1..Len(s) : s[i] = x

\* Line 131: sort_values(by=["study", "cancer_type"]): a lexsort, stable.
SortByStudyCancer(rows) ==
    SortByKey(rows,
              [i \in 1..Len(rows) |->
                  IndexOf(Studies, rows[i].study) * (Len(CancerTypes) + 1)
                    + IndexOf(CancerTypes, rows[i].cancer_type)],
              TRUE)

\* Series.unique(): the values in the order of their first appearance.
RECURSIVE Unique(_)
Unique(s) ==
    IF s = <<>> THEN <<>>
    ELSE LET u == Unique(SubSeq(s, 1, Len(s) - 1))
         IN  IF s[Len(s)] \in Range(u) THEN u ELSE Append(u, s[Len(s)])

\* seaborn's "Set2" as hex: eight colours.
Set2 == <<"#66c2a5", "#fc8d62", "#8da0cb", "#e78ac3",
          "#a6d854", "#ffd92f", "#e5c494", "#b3b3b3">>

\* Line 133: sns.color_palette("Set2", n).as_hex(): the colours in turn,
\* from the first again after the eighth.
Palette(n) == [i \in 1..n |-> Set2[((i - 1) % Len(Set2)) + 1]]

\* Line 134: dict(zip(proteins, palette)).
ProteinToColor(proteins) ==
    List([i \in 1..Len(proteins) |->
            [key |-> proteins[i], value |-> Palette(Len(proteins))[i]]])

DictGet(d, key) == d[CHOOSE i \in 1..Len(d) : d[i].key = key].value

\* Line 169: protein_to_color[group_data.name[2]].
MarkerColor(p2c, name) == DictGet(p2c, name[3])

\* Line 172: the group names of groupby([...], sort=False), in the order of
\* their first row.
GroupNames(rows) ==
    Unique(List([i \in 1..Len(rows) |->
                    <<rows[i].study, rows[i].cancer_type, rows[i].protein,
                      rows[i].transcript>>]))

\* Line 172: the expression values of the rows of one group.
GroupValues(rows, name) ==
    LET g == SelectSeq(rows, LAMBDA r : <<r.study, r.cancer_type, r.protein,
                                         r.transcript>> = name)
    IN  List([i \in 1..Len(g) |-> g[i].expression])

\* Lines 161-170 and 172: the row of the output for one group.
BoxplotRecord(rows, name, p2c) ==
    [study |-> name[1], cancer_type |-> name[2], protein |-> name[3],
     transcript |-> name[4], x |-> name[4],
     marker_color |-> MarkerColor(p2c, name)]
        @@ BoxplotStats(GroupValues(rows, name))

\* Line 172: the four keys of the groupby.
GroupKeys == <<"study", "cancer_type", "protein", "transcript">>

\* Line 172: the code of a value in a level of the grouped index.  With
\* sort=False a level holds the values of its column in the order of their
\* first row.
LevelCode(rows, level, v) ==
    IndexOf(Unique(List([i \in 1..Len(rows) |-> rows[i][GroupKeys[level]]])), v)

\* Line 172: unstack() returns the rows sorted by the codes of the four
\* levels, the first level first.
UnstackOrder(rows, names) ==
    LET n == Len(rows) + 1
        code(name) ==
            ((LevelCode(rows, 1, name[1]) * n + LevelCode(rows, 2, name[2])) * n
                + LevelCode(rows, 3, name[3])) * n + LevelCode(rows, 4, name[4])
    IN  SortByKey(names, [g \in 1..Len(names) |-> code(names[g])], TRUE)

\* Line 172: groupby(...).apply(get_boxplot_stats).unstack().reset_index().
FigureRecords(rows, p2c) ==
    LET names == UnstackOrder(rows, GroupNames(rows))
    IN  List([g \in 1..Len(names) |-> BoxplotRecord(rows, names[g], p2c)])

\* The table has at least one sample.
InitFigure ==
    /\ pc = "figure"
    /\ error = None
    /\ expression_df \in SeqsUpTo(Samples, MaxRows) \ {<<>>}
    /\ mapping \in Mappings
    /\ protein_to_color = None
    /\ dd = None
    /\ TopologyIdle
    /\ IsoformIdle
    /\ BoxplotIdle
    /\ ObjectsIdle
    /\ AppIdle
    /\ AlignIdle

\* create_expression_figure_objects, lines 121-175.
CreateExpressionFigureObjects ==
    /\ pc = "figure"
    /\ LET melted == AssignProtein(Melt(FilterStudies(expression_df)), mapping)
       IN  IF \E i \in 1..Len(melted) : SortKeyRaises(melted[i].protein)
           THEN /\ pc' = "failed"
                /\ error' = "ValueError"
                /\ UNCHANGED <<protein_to_color, dd>>
           ELSE \E stable \in BOOLEAN :
                  LET rows == SortByStudyCancer(SortByProtein(melted, stable))
                      proteins == Unique(List([i \in 1..Len(rows) |-> rows[i].protein]))
                      p2c == ProteinToColor(proteins)
                  IN  /\ protein_to_color' = p2c
                      /\ dd' = FigureRecords(rows, p2c)
                      /\ pc' = "saved"
                      /\ error' = None
    /\ UNCHANGED <<expression_df, mapping, topoVars, isoVars, boxVars, objVars, appVars, alignVars>>

NextFigure == CreateExpressionFigureObjects

SpecFigure == InitFigure /\ [][NextFigure]_vars

(***************************************************************************)
(* Claims on the expression figure objects (SpecFigure).                   *)
(***************************************************************************)
Saved == pc = "saved"

\* The proteins of the table: every column is in every sample.
ProteinsOfTable == {ProteinOf(mapping, Columns[j]) : j \in 1..Len(Columns)}

\* The rank of a protein among the proteins of the table, by the number of
\* its label.
ProteinRank(p) ==
    Cardinality({q \in ProteinsOfTable : SortKey(q) <= SortKey(p)})

Combinations ==
    {<<expression_df[i].study, expression_df[i].cancer_type,
       ProteinOf(mapping, Columns[j]), Columns[j]>> :
        i \in 1..Len(expression_df), j \in 1..Len(Columns)}

\* C20: when the function is over, its output holds exactly one record for
\* each combination that has a row, and no other record.
C20_OneRecordPerGroup ==
    pc \in {"saved", "failed"} =>
        /\ dd # None
        /\ {<<dd[i].study, dd[i].cancer_type, dd[i].protein, dd[i].transcript>> :
               i \in 1..Len(dd)} = Combinations
        /\ Len(dd) = Cardinality(Combinations)

(***************************************************************************)
(* Claim on values that are not numbers (SpecBoxplotRaw).                  *)
(***************************************************************************)

\* C21: of a group that holds a NaN, get_boxplot_stats makes no record: it
\* fails with NonFiniteValueError.
C21_NonFiniteRejected ==
    (pc # "group" /\ NaN \in Range(group_data)) =>
        /\ error = "NonFiniteValueError"
        /\ stats = None

(***************************************************************************)
(* create_membrane_topology_objects (topology.py:123-183) on several       *)
(* isoforms.                                                               *)
(*                                                                         *)
(* The two input files are held as their records, in the order of the      *)
(* file: the header of a record and its sequence line.  The mapping is the *)
(* header mapping that generate_isoform_mapping returns: the i-th header   *)
(* has the i-th isoform name.  Every isoform is in the alignment; the      *)
(* prediction file may lack some.                                          *)
(***************************************************************************)
MaxIsoforms == 2

\* The header of the i-th isoform.
HeaderOf(i) == <<"T">> \o Str(i)

\* Lines of aligned_sequences.fasta and of predicted_topologies.3line.
AlignedLines == { <<"A", "-", "A">>, <<"-", "A">> }
TopologyLines == { <<"S", "M">>, <<"M">> }

\* A cell of the table that holds no value (NaN).
NoValue == <<"NaN">>

\* The files of the output directory before the call: absent, or left by an
\* earlier run.
OutputDirs ==
    { [membrane_topology_csv |-> None, sequences_data_json |-> None],
      [membrane_topology_csv |-> "old", sequences_data_json |-> "old"] }

\* The records of a file for the isoforms of `order`, in that order.
RecordsOf(order, lines) ==
    [p \in 1..Len(order) |-> [header |-> HeaderOf(order[p]), line |-> lines[order[p]]]]

\* Line 126: pd.DataFrame(index=mapping.values(), columns=["sequence",
\* "topology"]): one row per value of the mapping, without values.
EmptyTable(m) ==
    [r \in 1..Len(m) |-> [index |-> m[r].value, sequence |-> NoValue,
                          topology |-> NoValue]]

\* membrane_topology.at[isoform_id, column].
TableAt(t, isoform_id) == t[CHOOSE r \in 1..Len(t) : t[r].index = isoform_id]

\* Line 135: membrane_topology.at[isoform_id, "sequence"] = line.
SetSequence(t, isoform_id, line) ==
    [r \in 1..Len(t) |->
        IF t[r].index = isoform_id
        THEN [index |-> t[r].index, sequence |-> line, topology |-> t[r].topology]
        ELSE t[r]]

\* Line 151: membrane_topology.at[isoform_id, "topology"] = full_topology.
SetTopology(t, isoform_id, full) ==
    [r \in 1..Len(t) |->
        IF t[r].index = isoform_id
        THEN [index |-> t[r].index, sequence |-> t[r].sequence, topology |-> full]
        ELSE t[r]]

\* Lines 131-135: the sequences of the records, one after the other.
RECURSIVE SetSequences(_, _, _)
SetSequences(t, m, recs) ==
    IF recs = <<>> THEN t
    ELSE SetSequences(SetSequence(t, DictGet(m, Head(recs).header), Head(recs).line),
                      m, Tail(recs))

\* Line 157 with every entry taken from the first isoform.
EncodeLabel_First(i) == IsoformName(0)

\* Line 157: isoform_id = "Isoform " + str(i + 1).
EncodeLabel(i) == IsoformName(i)

\* Line 163 with a missing topology taken for a string.
IsIterable_Always(topo) == TRUE

\* Line 163: enumerate(topology) raises TypeError on NaN, a float.
IsIterable(topo) == topo # NoValue

InitObjects ==
    /\ pc = "load"
    /\ error = None
    /\ \E n \in 1..MaxIsoforms :
          /\ label_mapping = [i \in 1..n |-> [key |-> HeaderOf(i),
                                              value |-> IsoformName(i - 1)]]
          /\ \E order \in OrdersOf(1..n), lines \in [1..n -> AlignedLines] :
                aligned_sequences = RecordsOf(order, lines)
          /\ \E present \in SUBSET (1..n) :
                \E order \in OrdersOf(present), lines \in [present -> TopologyLines] :
                   membrane_topology_file = RecordsOf(order, lines)
    /\ membrane_topology = None
    /\ sequences_data = None
    /\ loop_i = None
    /\ output_dir \in OutputDirs
    /\ TopologyIdle
    /\ IsoformIdle
    /\ BoxplotIdle
    /\ FigureIdle
    /\ AppIdle
    /\ AlignIdle

\* Lines 125-135: the table and the aligned sequences.
LoadAlignment ==
    /\ pc = "load"
    /\ membrane_topology' = SetSequences(EmptyTable(label_mapping), label_mapping,
                                         aligned_sequences)
    /\ loop_i' = 0
    /\ pc' = "project"
    /\ UNCHANGED <<error, label_mapping, aligned_sequences, membrane_topology_file,
                   sequences_data, output_dir, topoVars, isoVars, boxVars, figVars, appVars, alignVars>>

\* Lines 138-151 for one record of the prediction file.  An IndexError
\* leaves the function: nothing catches it.
ProjectRecord ==
    /\ pc = "project"
    /\ loop_i < Len(membrane_topology_file)
    /\ LET rec == membrane_topology_file[loop_i + 1]
           isoform_id == DictGet(label_mapping, rec.header)
           r == ProjectTopologyOf(TableAt(membrane_topology, isoform_id).sequence,
                                  rec.line)
       IN  IF r.err = None
           THEN /\ membrane_topology' = SetTopology(membrane_topology, isoform_id,
                                                    r.full_topology)
                /\ loop_i' = loop_i + 1
                /\ UNCHANGED <<pc, error>>
           ELSE /\ pc' = "failed"
                /\ error' = r.err
                /\ UNCHANGED <<membrane_topology, loop_i>>
    /\ UNCHANGED <<label_mapping, aligned_sequences, membrane_topology_file,
                   sequences_data, output_dir, topoVars, isoVars, boxVars, figVars, appVars, alignVars>>

\* Line 154, after the last record: sequences_data = [].
StartEncoding ==
    /\ pc = "project"
    /\ loop_i = Len(membrane_topology_file)
    /\ sequences_data' = <<>>
    /\ loop_i' = 0
    /\ pc' = "encode"
    /\ UNCHANGED <<error, label_mapping, aligned_sequences, membrane_topology_file,
                   membrane_topology, output_dir, topoVars, isoVars, boxVars, figVars, appVars, alignVars>>

\* Lines 155-177 for one i of range(len(membrane_topology)).
EncodeIsoform ==
    /\ pc = "encode"
    /\ loop_i < Len(membrane_topology)
    /\ LET topo == TableAt(membrane_topology, EncodeLabel(loop_i)).topology
       IN  IF IsIterable(topo)
           THEN /\ sequences_data' = Append(sequences_data, EncodeTopology(topo))
                /\ loop_i' = loop_i + 1
                /\ UNCHANGED <<pc, error>>
           ELSE /\ pc' = "failed"
                /\ error' = "TypeError"
                /\ UNCHANGED <<sequences_data, loop_i>>
    /\ UNCHANGED <<label_mapping, aligned_sequences, membrane_topology_file,
                   membrane_topology, output_dir, topoVars, isoVars, boxVars, figVars, appVars, alignVars>>

\* Lines 180-183: the two files are written after the last isoform.
SaveObjects ==
    /\ pc = "encode"
    /\ loop_i = Len(membrane_topology)
    /\ output_dir' = [membrane_topology_csv |-> membrane_topology,
                      sequences_data_json |-> sequences_data]
    /\ pc' = "done"
    /\ UNCHANGED <<error, label_mapping, aligned_sequences, membrane_topology_file,
                   membrane_topology, sequences_data, loop_i, topoVars, isoVars,
                   boxVars, figVars, appVars, alignVars>>

NextObjects ==
    LoadAlignment \/ ProjectRecord \/ StartEncoding \/ EncodeIsoform \/ SaveObjects

SpecObjects == InitObjects /\ [][NextObjects]_vars

\* create_topology_plot, plots_generation.py:27-32: the i-th segment map is
\* drawn on the row of the i-th value of the mapping.
PlotRows(m, sd) == [i \in 1..Len(sd) |-> [y_val |-> m[i].value, seq_data |-> sd[i]]]

(***************************************************************************)
(* Claims on create_membrane_topology_objects (SpecObjects).               *)
(***************************************************************************)

\* The line that a file holds for the isoform named label, NoValue if none.
LineOfLabel(recs, label) ==
    LET hits == {p \in 1..Len(recs) : DictGet(label_mapping, recs[p].header) = label}
    IN  IF hits = {} THEN NoValue ELSE recs[CHOOSE p \in hits : TRUE].line

\* The isoform named label can be projected and encoded: it has a predicted
\* topology, with a label for each of its residues.
Processable(label) ==
    /\ LineOfLabel(membrane_topology_file, label) # NoValue
    /\ NonGapCount(LineOfLabel(aligned_sequences, label))
         <= Len(LineOfLabel(membrane_topology_file, label))

\* C22: until the function is over the two files are as they were before
\* the call; a failure leaves the function with its exception, nothing runs
\* after it; and the function is over only if every isoform could be
\* projected and encoded.
C22_NoPartialResults ==
    /\ pc # "done" => output_dir \in OutputDirs
    /\ pc = "failed" => (error \in {"IndexError", "TypeError"} /\ ~ENABLED NextObjects)
    /\ pc = "done" =>
          \A i \in 1..Len(label_mapping) : Processable(label_mapping[i].value)

\* The second record of the prediction file fails after the first was
\* projected; the files of the earlier run are still there.
C22_Witness ==
    /\ pc = "failed"
    /\ error = "IndexError"
    /\ loop_i = 1
    /\ \E r \in 1..Len(membrane_topology) : membrane_topology[r].topology # NoValue
    /\ output_dir = [membrane_topology_csv |-> "old", sequences_data_json |-> "old"]

\* C28: the saved list has one segment map per value of the mapping; its
\* i-th entry (0-based) is the segment map of the projected topology of the
\* isoform named with the number i + 1, and create_topology_plot draws it on
\* the row of that name.
C28_IndexedByIsoformNumber ==
    pc = "done" =>
        LET sd == output_dir.sequences_data_json
            rows == PlotRows(label_mapping, sd)
        IN  /\ Len(sd) = Len(label_mapping)
            /\ \A i \in 0..(Len(sd) - 1) :
                  /\ sd[i + 1] = EncodeTopology(
                        ProjectTopologyOf(
                            LineOfLabel(aligned_sequences, IsoformName(i)),
                            LineOfLabel(membrane_topology_file, IsoformName(i))
                        ).full_topology)
                  /\ rows[i + 1].y_val = IsoformName(i)
                  /\ rows[i + 1].seq_data = sd[i + 1]

\* Two isoforms with different segment maps, the second first in both files.
C28_Witness ==
    /\ pc = "done"
    /\ Len(label_mapping) = 2
    /\ aligned_sequences[1].header = HeaderOf(2)
    /\ membrane_topology_file[1].header = HeaderOf(2)
    /\ output_dir.sequences_data_json[1] # output_dir.sequences_data_json[2]

(***************************************************************************)
(* The expression page of the app: plot_expression_data                    *)
(* (plots_generation.py:91-162) and the callbacks update_expression_plot   *)
(* and update_cancer_type_dropdown (app.py:216-300).                       *)
(*                                                                         *)
(* The stats table has the index (study, cancer_type, protein, transcript) *)
(* and one cell per row, a dict with the keys the plot reads.  A table is  *)
(* a sequence of rows; a row names its dict by an id, and `cells` maps the *)
(* ids to the dicts: selecting rows of a table gives a new table whose     *)
(* rows name the same dicts.                                               *)
(***************************************************************************)
MaxTableRows == 3

\* The protein of a transcript, and the index tuples a row can have.
ProteinOfTranscript == ("T1" :> "Isoform_1") @@ ("T2" :> "Isoform_2")

IndexTuples ==
    {<<s, c, ProteinOfTranscript[t], t>> :
        s \in Range(Studies), c \in Range(CancerTypes), t \in DOMAIN ProteinOfTranscript}

\* The dict of a row: the keys that plot_expression_data reads (lines
\* 114-139) and a statistic; the second transcript has an outlier.  A dict
\* as get_boxplot_stats builds it (expression.py:161-170) has no
\* "boxpoints".
CellDict(t, boxpoints) ==
    LET stats_dict == ("x" :> <<t>>) @@ ("y" :> IF t = "T2" THEN <<9>> ELSE <<>>)
                         @@ ("median" :> <<1>>)
                         @@ ("marker_color" :> Set2[IndexOf(<<"T1", "T2">>, t)])
    IN  IF boxpoints THEN stats_dict @@ ("boxpoints" :> FALSE) ELSE stats_dict

\* The tables: rows with distinct index tuples, in any order.
IndexLists(n) ==
    {l \in SeqsUpTo(IndexTuples, n) :
        l # <<>> /\ \A a, b \in 1..Len(l) : l[a] = l[b] => a = b}

\* The table with the index l, its r-th row naming the dict r.
TableOf(l) ==
    [r \in 1..Len(l) |-> [study |-> l[r][1], cancer_type |-> l[r][2],
                          protein |-> l[r][3], transcript |-> l[r][4], cell |-> r]]

CellsOf(l, boxpoints) == [r \in 1..Len(l) |-> CellDict(l[r][4], boxpoints)]

\* dict.pop(key) with no default: the dict without the key, or KeyError
\* when the dict has no such key.
DictPop(d, key) ==
    IF key \in DOMAIN d
    THEN [err |-> None, dict |-> [key2 \in DOMAIN d \ {key} |-> d[key2]]]
    ELSE [err |-> "KeyError", dict |-> d]

\* Lines 114-117 without the copy: the two keys are popped from the dict of
\* the table itself.
CopyThenPop_InPlace(d) ==
    LET y == DictPop(d, "y")
        boxpoints == DictPop(y.dict, "boxpoints")
        last == IF y.err # None THEN y ELSE boxpoints
    IN  [err |-> last.err, data_items |-> last.dict, source |-> last.dict]

\* Lines 114-117: data_items = data_for_each_transcript.copy(), then
\* data_items.pop("y") and data_items.pop("boxpoints"); the dict of the
\* table keeps its keys.
CopyThenPop(d) ==
    LET y == DictPop(d, "y")
        boxpoints == DictPop(y.dict, "boxpoints")
        last == IF y.err # None THEN y ELSE boxpoints
    IN  [err |-> last.err, data_items |-> last.dict, source |-> d]

\* Line 94: the (study, cancer_type) pairs of the index, each once, in the
\* order of their first row.
GroupIndexes(df) ==
    Unique(List([r \in 1..Len(df) |-> <<df[r].study, df[r].cancer_type>>]))

\* Lines 97-99: the cells of the rows of one pair, in the order of the table.
GroupCells(df, index) ==
    LET g == SelectSeq(df, LAMBDA row : <<row.study, row.cancer_type>> = index)
    IN  List([j \in 1..Len(g) |-> g[j].cell])

\* Lines 112-113: the (i, j) of the two loops with the dict of each, in the
\* order of the loops.
PlotItems(df) ==
    LET indexes == GroupIndexes(df)
    IN  Concat([i \in 1..Len(indexes) |->
                  LET ids == GroupCells(df, indexes[i])
                  IN  [j \in 1..Len(ids) |-> [i |-> i - 1, j |-> j - 1, cell |-> ids[j]]]])

\* Lines 119-141: go.Box(data_items, name=isoforms_list[j], ...) at
\* row=i//2+1, col=i%2+1.
BoxTrace(data_items, name, i, seen) ==
    [type |-> "box", props |-> data_items, name |-> name, legendgroup |-> name,
     showlegend |-> name \notin seen, row |-> (i \div 2) + 1, col |-> (i % 2) + 1]

\* Lines 143-161: the go.Scatter of the outliers, when there are some.
ScatterTraces(d, name, i) ==
    IF Len(d["y"]) > 0
    THEN << [type |-> "scatter",
             props |-> ("x" :> [n \in 1..Len(d["y"]) |-> d["x"][1]])
                          @@ ("y" :> d["y"]) @@ ("marker_color" :> d["marker_color"]),
             name |-> name, legendgroup |-> name, showlegend |-> FALSE,
             row |-> (i \div 2) + 1, col |-> (i % 2) + 1] >>
    ELSE <<>>

\* Lines 112-161 from the p-th item on.  The pops of lines 116-117 raise
\* KeyError before any trace is added; add_trace raises when (row, col) is
\* not a cell of the grid; d["y"] at line 143 raises KeyError on a dict
\* without "y".
RECURSIVE PlotTraces(_, _, _, _, _, _)
PlotTraces(items, p, grid, heap, seen, traces) ==
    IF p > Len(items) THEN [err |-> None, traces |-> traces, cells |-> heap]
    ELSE LET it == items[p]
             r == CopyThenPop(heap[it.cell])
             heap2 == [heap EXCEPT ![it.cell] = r.source]
             name == grid.isoforms_list[it.j + 1]
         IN  IF r.err # None
             THEN [err |-> r.err, traces |-> traces, cells |-> heap2]
             ELSE IF (it.i \div 2) + 1 > grid.rows \/ (it.i % 2) + 1 > grid.cols
             THEN [err |-> "Exception", traces |-> traces, cells |-> heap2]
             ELSE IF "y" \notin DOMAIN r.source
                  THEN [err |-> "KeyError", traces |-> traces, cells |-> heap2]
                  ELSE PlotTraces(items, p + 1, grid, heap2, seen \cup {name},
                                  traces \o <<BoxTrace(r.data_items, name, it.i, seen)>>
                                         \o ScatterTraces(r.source, name, it.i))

\* plot_expression_data, lines 91-178: the figure, or the exception, and
\* the dicts after the call.  make_subplots raises ValueError for rows=0.
PlotExpressionData(df, heap) ==
    LET cancer_types == Unique(List([r \in 1..Len(df) |-> df[r].cancer_type]))
        nb_cancer_types == Len(cancer_types)
        grid == [rows |-> (nb_cancer_types + 1) \div 2,
                 cols |-> IF nb_cancer_types > 1 THEN 2 ELSE 1,
                 isoforms_list |-> List([r \in 1..Len(df) |-> df[r].protein])]
        res == PlotTraces(PlotItems(df), 1, grid, heap, {}, <<>>)
    IN  IF grid.rows = 0
        THEN [err |-> "ValueError", fig |-> None, cells |-> heap]
        ELSE [err |-> res.err,
              fig |-> IF res.err # None THEN None
                      ELSE [traces |-> res.traces, subplot_titles |-> cancer_types,
                            rows |-> grid.rows, cols |-> grid.cols],
              cells |-> res.cells]

\* plot_expression_data on any table.
InitPlot ==
    /\ pc = "plot"
    /\ error = None
    /\ \E l \in IndexLists(MaxTableRows), boxpoints \in BOOLEAN :
          plot_df = TableOf(l) /\ cells = CellsOf(l, boxpoints)
    /\ shelf = None
    /\ cache = None
    /\ call = None
    /\ returned = None
    /\ TopologyIdle
    /\ IsoformIdle
    /\ BoxplotIdle
    /\ FigureIdle
    /\ ObjectsIdle
    /\ AlignIdle

PlotExpression ==
    /\ pc = "plot"
    /\ LET res == PlotExpressionData(plot_df, cells)
       IN  /\ returned' = res.fig
           /\ error' = res.err
           /\ cells' = res.cells
           /\ pc' = IF res.err = None THEN "plotted" ELSE "failed"
    /\ UNCHANGED <<shelf, cache, plot_df, call, topoVars, isoVars, boxVars, figVars,
                   objVars, alignVars>>

NextPlot == PlotExpression

SpecPlot == InitPlot /\ [][NextPlot]_vars

(***************************************************************************)
(* Claim on plot_expression_data (SpecPlot).                               *)
(***************************************************************************)

\* The traces of the figure that stand for the row: those in the subplot of
\* the row's (study, cancer_type) pair whose x is the row's transcript.
TracesOfRow(fig, df, row) ==
    LET i == IndexOf(GroupIndexes(df), <<row.study, row.cancer_type>>) - 1
    IN  {n \in 1..Len(fig.traces) :
            /\ fig.traces[n].row = (i \div 2) + 1
            /\ fig.traces[n].col = (i % 2) + 1
            /\ fig.traces[n].props["x"][1] = row.transcript}

\* The title of the subplot at (row, col): the titles fill the grid row by
\* row.
TitleAt(fig, row, col) ==
    LET n == (row - 1) * fig.cols + col
    IN  IF n <= Len(fig.subplot_titles) THEN fig.subplot_titles[n] ELSE ""

\* C29: of any table a figure is made, in which every row has its box trace,
\* and its outlier trace when it has outliers, named and legend-grouped by
\* the row's own protein, in the subplot titled by the row's cancer type.
C29_PlotLabelling ==
    pc \in {"plotted", "failed"} =>
        /\ pc = "plotted"
        /\ \A r \in 1..Len(plot_df) :
              LET own == TracesOfRow(returned, plot_df, plot_df[r])
              IN  /\ \E n \in own : returned.traces[n].type = "box"
                  /\ Len(cells[plot_df[r].cell]["y"]) > 0 =>
                        \E n \in own : returned.traces[n].type = "scatter"
                  /\ \A n \in own :
                        /\ returned.traces[n].name = plot_df[r].protein
                        /\ returned.traces[n].legendgroup = plot_df[r].protein
                        /\ TitleAt(returned, returned.traces[n].row,
                                   returned.traces[n].col) = plot_df[r].cancer_type

(***************************************************************************)
(* The callbacks that read the expression table (app.py:85-90, 105-204,   *)
(* 216-300).  A state of SpecApp is the app between two callbacks of one   *)
(* tab: `shelf` is the table in the shelve file with its dicts, `cache`    *)
(* the table that the memoized get_expression_data holds (None before the  *)
(* first call), `cells` its dicts.  `call` is the last callback with the   *)
(* selections in effect, `returned` the values it returned, `plot_df` the  *)
(* table it passed to plot_expression_data (call.plotted tells whether it  *)
(* called it).                                                             *)
(***************************************************************************)
MaxShelfRows == 2

\* app.py:12-14.
isoforms_inital_value == <<>>

studies_inital_value == <<"TCGA">>

cancer_types_inital_value == <<>>

\* The rank of an index tuple in the lexicographic order of the index.
TupleRank(t) ==
    ((IndexOf(Studies, t[1]) - 1) * Len(CancerTypes) + (IndexOf(CancerTypes, t[2]) - 1)) * 2
        + IF t[4] = "T1" THEN 0 ELSE 1

\* The rows of the table are in the lexicographic order of the index.
IsLexsorted(df) ==
    \A a, b \in 1..Len(df) :
        a < b => TupleRank(<<df[a].study, df[a].cancer_type, df[a].protein,
                             df[a].transcript>>)
                   < TupleRank(<<df[b].study, df[b].cancer_type, df[b].protein,
                                 df[b].transcript>>)

\* The values of a level of the index, sorted.
LevelValues(level) ==
    CASE level = "study" -> Studies
      [] level = "cancer_type" -> CancerTypes
      [] level = "protein" -> <<"Isoform_1", "Isoform_2">>
      [] level = "transcript" -> <<"T1", "T2">>

\* The tables of a shelve file: their rows are in the order of the index.
ShelfIndexes ==
    {l \in IndexLists(MaxShelfRows) :
        \A a, b \in 1..Len(l) : a < b => TupleRank(l[a]) < TupleRank(l[b])}

\* The values of the State and Input arguments of the callbacks: None on
\* the first call, or a list of labels in the order of the clicks.
IsoformSelections == {None, <<>>, <<"Isoform_1">>}

StudySelections == {<<>>, <<"TCGA">>, <<"GTEX", "TCGA">>, <<"TCGA", "GTEX">>}

\* The pathname of the page (app.py:113-135).
Pathnames == {"/", "/Topology", "/Expression", "/Other"}

CancerTypeSelections == {<<>>, <<"Lung">>}

Buttons == {"expression-update-button", "expression-cancel-button"}

\* df.loc[idx[...]] with a list of labels on one level: a new table with
\* the rows of df whose label is in the list, naming the same dicts.  The
\* rows keep their order when df is lexsorted and the labels are in the
\* order of the level; otherwise they come in the order of the labels, the
\* rows of one label in their order in df.
LocLevel(df, level, labels) ==
    LET selected == SelectSeq(df, LAMBDA row : row[level] \in Range(labels))
        order == Unique(labels)
        need_sort ==
            \/ ~IsLexsorted(df)
            \/ \E a, b \in 1..Len(labels) :
                  /\ a < b
                  /\ IndexOf(LevelValues(level), labels[a])
                        > IndexOf(LevelValues(level), labels[b])
    IN  IF need_sort
        THEN SortByKey(selected,
                       [r \in 1..Len(selected) |-> IndexOf(order, selected[r][level])],
                       TRUE)
        ELSE selected

\* A label of the list has no row in df.  pandas then raises KeyError or
\* ignores the label, depending on its version.
MissingLabel(df, level, labels) ==
    \E x \in Range(labels) : \A r \in 1..Len(df) : df[r][level] # x

\* app.py:238-247: the selections after the reset of Cancel and of the first
\* call.
Selected(button, isoforms, studies, cancer_types) ==
    IF \/ button = "expression-cancel-button"
       \/ isoforms = None \/ studies = None \/ cancer_types = None
    THEN [isoforms |-> isoforms_inital_value, studies |-> studies_inital_value,
          cancer_types |-> cancer_types_inital_value]
    ELSE [isoforms |-> isoforms, studies |-> studies, cancer_types |-> cancer_types]

\* app.py:232-287 on the table df of get_expression_data: the exception or
\* the returned values, the table given to plot_expression_data and the
\* dicts after the call.  `strict` is the pandas that raises KeyError.
\* With no study selected, line 259 reads `go`, a name that app.py does
\* not import (lines 1-9): NameError.
UpdateExpressionPlotOf(df, heap, button, isoforms, studies, cancer_types, strict) ==
    LET sel == Selected(button, isoforms, studies, cancer_types)
        df1 == IF Len(sel.isoforms) > 0 THEN LocLevel(df, "protein", sel.isoforms) ELSE df
        df2 == LocLevel(df1, "study", sel.studies)
        df3 == IF Len(sel.cancer_types) > 0
               THEN LocLevel(df2, "cancer_type", sel.cancer_types) ELSE df2
        res == PlotExpressionData(df3, heap)
        raise(e) == [err |-> e, returned |-> <<>>, plotted |-> FALSE, plot_df |-> <<>>,
                     cells |-> heap]
    IN  IF strict /\ Len(sel.isoforms) > 0 /\ MissingLabel(df, "protein", sel.isoforms)
        THEN raise("KeyError")
        ELSE IF Len(sel.studies) = 0
        THEN raise("NameError")
        ELSE IF strict /\ MissingLabel(df1, "study", sel.studies)
        THEN raise("KeyError")
        ELSE IF strict /\ Len(sel.cancer_types) > 0
                       /\ MissingLabel(df2, "cancer_type", sel.cancer_types)
        THEN raise("KeyError")
        ELSE IF res.err # None
        THEN [err |-> res.err, returned |-> <<>>, plotted |-> TRUE, plot_df |-> df3,
              cells |-> res.cells]
        ELSE [err |-> None,
              returned |-> <<res.fig, sel.isoforms, sel.studies, sel.cancer_types>>,
              plotted |-> TRUE, plot_df |-> df3, cells |-> res.cells]

\* app.py:295-300: the cancer types of the selected studies, or no_update.
UpdateCancerTypeDropdownOf(df, studies, strict) ==
    IF studies = <<>>
    THEN [err |-> None, returned |-> <<"no_update">>]
    ELSE IF strict /\ MissingLabel(df, "study", studies)
    THEN [err |-> "KeyError", returned |-> <<>>]
    ELSE LET sub == LocLevel(df, "study", studies)
         IN  [err |-> None,
              returned |-> <<Unique(List([r \in 1..Len(sub) |-> sub[r].cancer_type]))>>]

InitApp ==
    /\ pc = "started"
    /\ error = None
    /\ \E l \in ShelfIndexes, boxpoints \in BOOLEAN :
          shelf = [table |-> TableOf(l), dicts |-> CellsOf(l, boxpoints)]
    /\ cache = None
    /\ cells = None
    /\ plot_df = None
    /\ call = None
    /\ returned = None
    /\ TopologyIdle
    /\ IsoformIdle
    /\ BoxplotIdle
    /\ FigureIdle
    /\ ObjectsIdle
    /\ AlignIdle

\* One call of update_expression_plot, with get_expression_data.
UpdateExpressionPlot ==
    /\ pc \in {"started", "served"}
    /\ \E button \in Buttons, isoforms \in IsoformSelections, studies \in StudySelections,
          cancer_types \in CancerTypeSelections, strict \in BOOLEAN :
          \E df \in {IF pc = "started" THEN shelf.table ELSE cache},
             heap \in {IF pc = "started" THEN shelf.dicts ELSE cells} :
          \E res \in {UpdateExpressionPlotOf(df, heap, button, isoforms, studies,
                                             cancer_types, strict)} :
              /\ cache' = df
              /\ cells' = res.cells
              /\ plot_df' = res.plot_df
              /\ returned' = res.returned
              /\ error' = res.err
              /\ call' = [handler |-> "update_expression_plot", later |-> pc = "served",
                          plotted |-> res.plotted, button |-> button,
                          selected |-> Selected(button, isoforms, studies,
                                                cancer_types)]
    /\ pc' = "served"
    /\ UNCHANGED <<shelf, topoVars, isoVars, boxVars, figVars, objVars, alignVars>>

\* One call of update_cancer_type_dropdown, with get_expression_data.
UpdateCancerTypeDropdown ==
    /\ pc \in {"started", "served"}
    /\ \E studies \in StudySelections, strict \in BOOLEAN :
          \E df \in {IF pc = "started" THEN shelf.table ELSE cache} :
          \E res \in {UpdateCancerTypeDropdownOf(df, studies, strict)} :
              /\ cache' = df
              /\ cells' = IF pc = "started" THEN shelf.dicts ELSE cells
              /\ plot_df' = <<>>
              /\ returned' = res.returned
              /\ error' = res.err
              /\ call' = [handler |-> "update_cancer_type_dropdown", later |-> pc = "served",
                          plotted |-> FALSE, button |-> None,
                          selected |-> [isoforms |-> <<>>, studies |-> studies,
                                        cancer_types |-> <<>>]]
    /\ pc' = "served"
    /\ UNCHANGED <<shelf, topoVars, isoVars, boxVars, figVars, objVars, alignVars>>

\* app.py:110-204: the page of a pathname.
RenderPageContentOf(pathname) ==
    CASE pathname = "/" -> "home"
      [] pathname = "/Topology" -> "topology"
      [] pathname = "/Expression" -> "expression"
      [] OTHER -> "404"

\* One call of render_page_content, with get_expression_data.
RenderPageContent ==
    /\ pc \in {"started", "served"}
    /\ \E pathname \in Pathnames :
          /\ returned' = <<RenderPageContentOf(pathname)>>
          /\ call' = [handler |-> "render_page_content", later |-> pc = "served",
                      plotted |-> FALSE, button |-> None,
                      selected |-> [isoforms |-> <<>>, studies |-> <<>>,
                                    cancer_types |-> <<>>]]
    /\ cache' = IF pc = "started" THEN shelf.table ELSE cache
    /\ cells' = IF pc = "started" THEN shelf.dicts ELSE cells
    /\ plot_df' = <<>>
    /\ error' = None
    /\ pc' = "served"
    /\ UNCHANGED <<shelf, topoVars, isoVars, boxVars, figVars, objVars, alignVars>>

NextApp ==
    \/ RenderPageContent
    \/ UpdateExpressionPlot
    \/ UpdateCancerTypeDropdown

SpecApp == InitApp /\ [][NextApp]_vars

(***************************************************************************)
(* Claims on the callbacks (SpecApp).                                      *)
(***************************************************************************)

\* The selections in effect in the last call of update_expression_plot,
\* after the resets of lines 238-247.
LastSelected == call.selected

\* The last callback was update_expression_plot and it returned.
PlotCallbackReturned ==
    /\ pc = "served"
    /\ call.handler = "update_expression_plot"
    /\ error = None

\* C23: after any sequence of callbacks the table held by get_expression_data
\* and its dicts are those that were loaded, so that a call with empty
\* isoform and cancer-type selections plots every row of the loaded table
\* for the selected studies.
C23_LoadedDataUnchanged ==
    pc = "served" =>
        /\ cache = shelf.table
        /\ cells = shelf.dicts
        /\ (/\ PlotCallbackReturned
            /\ LastSelected.isoforms = <<>>
            /\ LastSelected.cancer_types = <<>>
            /\ LastSelected.studies # <<>>) =>
                /\ Range(plot_df) = {row \in Range(shelf.table) :
                                        row.study \in Range(LastSelected.studies)}
                /\ Len(plot_df) = Cardinality(Range(plot_df))

\* An earlier callback was served, and the last one plotted every row of a
\* loaded table of two rows with no isoform or cancer-type selection.
C23_Witness ==
    /\ PlotCallbackReturned
    /\ call.later
    /\ call.button = "expression-update-button"
    /\ LastSelected.isoforms = <<>>
    /\ LastSelected.cancer_types = <<>>
    /\ Len(shelf.table) = 2
    /\ call.plotted
    /\ Range(plot_df) = Range(shelf.table)

\* C27: update_expression_plot returns four values on every path, also with
\* no study selected, and plot_expression_data is called only with at least
\* one study selected.
C27_FourOutputs ==
    (pc = "served" /\ call.handler = "update_expression_plot") =>
        /\ Len(LastSelected.studies) = 0 => (error = None /\ Len(returned) = 4)
        /\ error = None => Len(returned) = 4
        /\ call.plotted => Len(LastSelected.studies) > 0

(***************************************************************************)
(* align_sequences (extract_sequences.py:247-361): the job is submitted,   *)
(* its status is polled every ten seconds, and the result is downloaded.   *)
(* `service` is the status of the job at the alignment service; it changes *)
(* while the job is not in a final status.  A request is answered or       *)
(* raises a RequestException.  The counters stop at MaxPolls.              *)
(***************************************************************************)
MaxPolls == 3

\* The statuses of a job at the service; a job stays in a final status.
FinalStatuses == {"FINISHED", "ERROR", "NOT_FOUND", "FAILURE"}

ServiceStatuses == {"QUEUED", "RUNNING"} \cup FinalStatuses

\* The job id and the alignment that the service answers with.
JobId == "clustalo-J1"

AlignedFasta == ">Isoform 1\nA-A\n"

Count(n) == IF n < MaxPolls THEN n + 1 ELSE MaxPolls

\* Lines 267-299: the job id, or None when the request raises.
SubmitJobOf(answered) == IF answered THEN JobId ELSE None

\* Lines 302-319: the text of the response, or "ERROR" when the request
\* raises.
CheckStatusOf(answered, text) == IF answered THEN text ELSE "ERROR"

\* Lines 347 and 350 with the test always true.
IsFinished_Always(st) == TRUE

\* Lines 347 and 350: status == "FINISHED".
IsFinished(st) == st = "FINISHED"

\* Line 352 with the test never true.
IsFailed_Never(st) == FALSE

\* Line 352: status in ["ERROR", "NOT_FOUND", "FAILURE"].
IsFailed(st) == st \in {"ERROR", "NOT_FOUND", "FAILURE"}

InitAlign ==
    /\ pc = "submit"
    /\ error = None
    /\ job_id = None
    /\ status = ""
    /\ service \in ServiceStatuses
    /\ alignment = None
    /\ checks = 0
    /\ sleeps = 0
    /\ fetches = 0
    /\ TopologyIdle
    /\ IsoformIdle
    /\ BoxplotIdle
    /\ FigureIdle
    /\ ObjectsIdle
    /\ AppIdle

\* Line 343: job_id = submit_job(sequences, email).
SubmitJob ==
    /\ pc = "submit"
    /\ \E answered \in BOOLEAN : job_id' = SubmitJobOf(answered)
    /\ pc' = "check"
    /\ UNCHANGED <<error, status, service, alignment, checks, sleeps, fetches, topoVars,
                   isoVars, boxVars, figVars, objVars, appVars>>

\* Lines 347-354: one status check; FINISHED leaves the loop, a failed
\* status ends the process with sys.exit(1), any other status goes on to
\* the sleep.
CheckStatus ==
    /\ pc = "check"
    /\ \E answered \in BOOLEAN :
          LET st == CheckStatusOf(answered, service)
          IN  /\ status' = st
              /\ pc' = IF IsFinished(st) THEN "result"
                       ELSE IF IsFailed(st) THEN "exited" ELSE "sleep"
              /\ error' = IF ~IsFinished(st) /\ IsFailed(st) THEN "SystemExit" ELSE error
    /\ checks' = Count(checks)
    /\ UNCHANGED <<job_id, service, alignment, sleeps, fetches, topoVars, isoVars, boxVars,
                   figVars, objVars, appVars>>

\* Line 356: time.sleep(10), then the next turn of the loop.
Sleep ==
    /\ pc = "sleep"
    /\ sleeps' = Count(sleeps)
    /\ pc' = "check"
    /\ UNCHANGED <<error, job_id, status, service, alignment, checks, fetches, topoVars,
                   isoVars, boxVars, figVars, objVars, appVars>>

\* Lines 359-361 with 322-340: the result is downloaded and returned, or
\* the process ends with sys.exit(1) when the request raises.
GetResult ==
    /\ pc = "result"
    /\ \E answered \in BOOLEAN :
          IF answered
          THEN alignment' = AlignedFasta /\ pc' = "returned" /\ error' = error
          ELSE alignment' = alignment /\ pc' = "exited" /\ error' = "SystemExit"
    /\ fetches' = fetches + 1
    /\ UNCHANGED <<job_id, status, service, checks, sleeps, topoVars, isoVars, boxVars,
                   figVars, objVars, appVars>>

\* The service: a job that is not in a final status changes its status.
ServiceProgress ==
    /\ pc \in {"submit", "check", "sleep"}
    /\ service \notin FinalStatuses
    /\ service' \in ServiceStatuses \ {service}
    /\ UNCHANGED <<pc, error, job_id, status, alignment, checks, sleeps, fetches, topoVars,
                   isoVars, boxVars, figVars, objVars, appVars>>

AlignSequences ==
    \/ SubmitJob
    \/ CheckStatus
    \/ Sleep
    \/ GetResult

NextAlign ==
    \/ AlignSequences
    \/ ServiceProgress

SpecAlign == InitAlign /\ [][NextAlign]_vars

\* The process runs on: a request is answered or raises, and the sleep
\* ends.  Nothing is assumed of the service.
SpecAlignFair == SpecAlign /\ WF_vars(AlignSequences)

(***************************************************************************)
(* Claims on align_sequences (SpecAlign, SpecAlignFair).                   *)
(***************************************************************************)

\* C24: align_sequences returns the alignment when the job finishes, and
\* returns None when the submission fails, the status is ERROR, NOT_FOUND
\* or FAILURE, or the download fails: it never ends otherwise.
C24_ErrorContract ==
    /\ pc # "exited"
    /\ error = None
    /\ pc = "returned" => alignment \in {AlignedFasta, None}

\* C25: get_result is called at most once and only after a status of
\* FINISHED; after a status of ERROR, NOT_FOUND or FAILURE the function has
\* ended without a download; and a sleep lies between two status checks.
C25_PollingOrder ==
    /\ fetches <= 1
    /\ (fetches = 1 \/ pc = "result") => status = "FINISHED"
    /\ status \in {"ERROR", "NOT_FOUND", "FAILURE"} => (pc = "exited" /\ fetches = 0)
    /\ checks <= sleeps + 1
    /\ pc = "check" => sleeps = checks

\* The result was downloaded after three status checks.
C25_Witness ==
    /\ pc = "returned"
    /\ checks = MaxPolls
    /\ sleeps = MaxPolls - 1
    /\ fetches = 1

Polling == pc \in {"submit", "check", "sleep"}

\* C26: once the job is in a final status the function leaves its polling
\* loop, and it leaves the loop only after a status check that answered
\* FINISHED, ERROR, NOT_FOUND or FAILURE, also when job_id is None.
C26_PollingTermination ==
    /\ (service \in FinalStatuses) ~> ~Polling
    /\ [](~Polling => status \in {"FINISHED", "ERROR", "NOT_FOUND", "FAILURE"})

\* Without a job id, the loop went on after a status that is not final and
\* was left at a later check.
C26_Witness ==
    /\ job_id = None
    /\ checks = MaxPolls
    /\ sleeps = MaxPolls - 1
    /\ ~Polling
=============================================================================
